---- MODULE Spec2Model ----
(***************************************************************************)
(* Model of anyblok_wms_base, bloks/wms_core.                              *)
(*                                                                         *)
(* The Operation base class (operation/base.py): create, execute, cancel,  *)
(* obliviate, plan_revert over the store of operations, follows edges and  *)
(* goods avatars. The base class leaves its hooks abstract (they raise     *)
(* NotImplementedError); the hooks below are those of a generic concrete   *)
(* subtype that consumes input avatars and produces outcome avatars, as    *)
(* the specification describes Arrival, Move, Split, Aggregate, Unpack.    *)
(*                                                                         *)
(* Location (location.py): quantity and tag_cte over the rows of the       *)
(* locations and of the goods in them; and the quantities through Split    *)
(* and Aggregate, whose classes the tests exercise.                        *)
(***************************************************************************)
EXTENDS Integers, Sequences, FiniteSets, TLC

\* ------------------------------------------------------------------ bounds
\* any caller: the calls made, the ids the store allocates to created
\* operations, the ids in all (planned reversals included), and the clock,
\* which runs over 0..MaxTime
MaxCalls == 3
MaxOps == 2
MaxIds == 3
MaxTime == 1
\* the graphs that grow from one arrival: the calls made, the ids in all,
\* and how many of the last ones are left to planned reversals
MaxGraphCalls == 5
MaxGraphIds == 7
MaxReversals == 3
\* the chain of three planned operations, executed and reverted at any date
\* and time: the calls made, and the ids in all
MaxChainCalls == 5
MaxChainIds == 5
\* the locations and the goods in them: the rows of each, the dates and
\* times, which run over 0..MaxDate, and the quantity of one record of goods
MaxLocations == 3
MaxGoods == 2
MaxDate == 1
MaxQuantity == 2
\* the moves made in the scenario of the reversal of a split
MaxMoves == 2
\* the quantity of a record of goods to be split
MaxSplitQuantity == 3

\* ------------------------------------------------------------- optionals
\* Python's None is the empty tuple, a value x is <<x>>
None == <<>>
Some(x) == <<x>>
IsNone(o) == o = <<>>
Val(o) == o[1]

Times == 0..MaxTime
OptTimes == {None} \cup {Some(t) : t \in Times}

\* ------------------------------------------------------------- constants
OPERATION_STATES == {"planned", "started", "done"}
OPERATION_TYPES == {"arrival", "move", "split", "aggregate", "unpack"}
AVATAR_STATES == {"past", "present", "future"}
GoodsTypes == {"gt1", "gt2"}

\* Goods.Type.behaviours: what the mapping has, or None, under each of the
\* keys that matter to Split and Aggregate: the flag of the physical
\* behaviour, and 'reversible' of the behaviours of the two operations.
\* A type without behaviours has None under every key.
Behaviours ==
  [split_aggregate_physical : {None, Some(TRUE)},
   split : {None, Some(TRUE)}, aggregate : {None, Some(TRUE)}]
NoBehaviours ==
  [split_aggregate_physical |-> None, split |-> None, aggregate |-> None]

\* (the override of the type left aside)
is_split_reversible_physical(behaviours) ==
  IsNone(behaviours.split_aggregate_physical)

\* Goods.Type.is_split_reversible and is_aggregate_reversible: what the
\* behaviour of the operation says if it says so, and otherwise whether
\* splits and aggregates are not physical
is_split_reversible(behaviours) ==
  IF ~IsNone(behaviours.split) THEN Val(behaviours.split)
  ELSE IsNone(behaviours.split_aggregate_physical)
is_aggregate_reversible(behaviours) ==
  IF ~IsNone(behaviours.aggregate) THEN Val(behaviours.aggregate)
  ELSE IsNone(behaviours.split_aggregate_physical)

\* number of avatars an operation of the type consumes and produces
NIn(type) == CASE type = "arrival" -> 0
               [] type = "aggregate" -> 2
               [] OTHER -> 1
NOut(type) == CASE type \in {"split", "unpack"} -> 2
                [] OTHER -> 1
\* the types whose class overrides is_reversible()
ReversibleTypes == {"move", "split", "aggregate"}
\* the type of the operation that reverts an operation of the type
ReversalType(type) == CASE type = "split" -> "aggregate"
                        [] type = "aggregate" -> "split"
                        [] OTHER -> type

\* ----------------------------------------------------------------- state
VARIABLES
  ops,       \* id -> [type, state, dt_execution, dt_start, inputs]: the rows
  edges,     \* wms_operation_history: <<parent_id, child_id>>
  avatars,   \* <<op id, k>> -> [reason, state]: the goods avatars
  nextId,    \* the next id the sequence of Operation.id gives
  clock,     \* datetime.now()
  calls,     \* the number of calls made so far
  last,      \* the latest call: what was called, on what store, and its outcome
  locations, \* id -> [parent, tag]: the rows of Wms.Location
  goods,     \* id -> [type, location, state, dt_from, dt_until, quantity,
             \*        reason]: the goods avatars that the quantities are about
  goods_types, \* code -> behaviours: the rows of Wms.Goods.Type
  properties,  \* id -> the properties: the rows of Wms.Goods.Properties
  query      \* the latest call on the locations and goods, and its result

vars == <<ops, edges, avatars, nextId, clock, calls, last,
          locations, goods, goods_types, properties, query>>
\* the operations, and the locations with the goods in them
operations == <<ops, edges, avatars, nextId, clock, calls, last>>
\* the types of goods and the properties of goods
catalogue == <<goods_types, properties>>
ledger == <<locations, goods, catalogue, query>>

\* The store a handler works on, with the trace of the hooks it calls.
\* err is "none" until an exception is raised; ret is the returned value.
Store == [ops |-> ops, edges |-> edges, avatars |-> avatars, nextId |-> nextId,
          log |-> <<>>, err |-> "none", ret |-> <<>>,
          nows |-> <<>>, reads |-> <<>>, unimplemented |-> {}]

Ids(s) == DOMAIN s.ops
AvIds(s) == DOMAIN s.avatars

\* a function without the keys of K
Without(f, K) == [k \in DOMAIN f \ K |-> f[k]]
\* a function with key k set to v
With(f, k, v) == [x \in DOMAIN f \cup {k} |-> IF x = k THEN v ELSE f[x]]

Log(s, ev) == [s EXCEPT !.log = Append(@, ev)]
Raise(s, exc, op) == [s EXCEPT !.err = exc, !.ret = <<op>>]
Failed(s) == s.err # "none"

\* op.follows and op.followers, the two sides of the Many2Many
Follows(s, x) == {e[1] : e \in {f \in s.edges : f[2] = x}}
Followers(s, x) == {e[2] : e \in {f \in s.edges : f[1] = x}}

\* a finite set of integers as the tuple in increasing order: the order in
\* which the rows of the relationship were inserted (ids grow)
RECURSIVE SortedSeq(_)
SortedSeq(S) ==
  IF S = {} THEN <<>>
  ELSE LET m == CHOOSE x \in S : \A y \in S : x <= y
       IN <<m>> \o SortedSeq(S \ {m})

SeqToSet(q) == {q[i] : i \in 1..Len(q)}

\* the least and the greatest of a finite set of integers
Min(S) == CHOOSE m \in S : \A n \in S : m <= n
Max(S) == CHOOSE m \in S : \A n \in S : m >= n

\* the avatars whose reason is the operation, and those it takes as input
Outcomes(s, x) == {a \in AvIds(s) : s.avatars[a].reason = x}
Consumers(s, a) == {x \in Ids(s) : a \in s.ops[x].inputs}


\* ------------------------------------------------ hooks of the subtypes
\* check_create_conditions: the inputs are as many as the type takes, exist,
\* are claimed by no other operation, and are there (for a done operation)
\* or will be (for a planned one)
check_create_conditions(s, state, dt_execution, type, inputs) ==
  /\ Cardinality(inputs) = NIn(type)
  /\ inputs \subseteq AvIds(s)
  /\ \A a \in inputs :
       /\ Consumers(s, a) = {}
       /\ IF state = "done" THEN s.avatars[a].state = "present"
          ELSE s.avatars[a].state \in {"present", "future"}

\* find_parent_operations: the reasons of the input avatars. A subtype that
\* leaves the hook unimplemented gets the one of the base class, which
\* raises NotImplementedError: create() asks s.unimplemented.
find_parent_operations(s, inputs) ==
  SortedSeq({s.avatars[a].reason : a \in inputs})

\* after_insert: the outcomes, future for an operation still to be executed,
\* present for a done one, whose inputs are then past
after_insert(s, x) ==
  LET o == s.ops[x]
      outs == {<<x, k>> : k \in 1..NOut(o.type)}
      st == IF o.state = "done" THEN "present" ELSE "future"
  IN [s EXCEPT !.avatars =
        [a \in DOMAIN @ \cup outs |->
           IF a \in outs THEN [reason |-> x, state |-> st]
           ELSE IF a \in o.inputs /\ o.state = "done"
                THEN [@[a] EXCEPT !.state = "past"]
                ELSE @[a]]]

\* check_execute_conditions: every input is present
check_execute_conditions(s, x) ==
  \A a \in s.ops[x].inputs : a \in AvIds(s) /\ s.avatars[a].state = "present"

\* execute_planned: the inputs become past, the outcomes present
execute_planned(s, x) ==
  [s EXCEPT !.avatars =
     [a \in DOMAIN @ |->
        IF a \in s.ops[x].inputs THEN [@[a] EXCEPT !.state = "past"]
        ELSE IF @[a].reason = x THEN [@[a] EXCEPT !.state = "present"]
        ELSE @[a]]]

\* cancel_single: the planned outcomes are deleted
cancel_single(s, x) ==
  [s EXCEPT !.avatars = Without(@, {a \in DOMAIN @ : @[a].reason = x})]

\* obliviate_single: the outcomes are deleted, the inputs present again
obliviate_single(s, x) ==
  LET ins == IF x \in Ids(s) THEN s.ops[x].inputs ELSE {}
      kept == {a \in AvIds(s) : s.avatars[a].reason # x}
  IN [s EXCEPT !.avatars =
        [a \in kept |-> IF a \in ins THEN [@[a] EXCEPT !.state = "present"]
                        ELSE @[a]]]

\* ------------------------------------------------------------ the store
\* cls.insert(state=state, dt_execution=dt_execution, **fields): dt_start is
\* a named parameter of create() and is not among the fields
insert(s, type, state, dt_execution, inputs) ==
  [s EXCEPT !.ops = With(@, s.nextId,
                         [type |-> type, state |-> state,
                          dt_execution |-> dt_execution, dt_start |-> None,
                          inputs |-> inputs]),
            !.nextId = @ + 1]

\* (the edges added on both sides of the relationship)
follows_extend_both(s, x, follows) ==
  [s EXCEPT !.edges = @ \cup {<<p, x>> : p \in SeqToSet(follows)}
                        \cup {<<x, p>> : p \in SeqToSet(follows)}]

\* op.follows.extend(follows)
follows_extend(s, x, follows) ==
  [s EXCEPT !.edges = @ \cup {<<p, x>> : p \in SeqToSet(follows)}]

\* (nothing cleared)
follows_clear_none(s, x) == s

\* (the followers cleared, the follows left)
follows_clear_followers(s, x) ==
  [s EXCEPT !.edges = {e \in @ : e[1] # x}]

\* op.follows.clear()
follows_clear(s, x) ==
  [s EXCEPT !.edges = {e \in @ : e[2] # x}]

\* op.delete()
delete(s, x) ==
  [s EXCEPT !.ops = Without(@, {x})]


\* ------------------------------------------------- Operation (base.py)
\* (a test of the truth value of follows, which an empty list passes)
forbid_follows_in_create_truthy(follows) ==
  ~IsNone(follows) /\ Val(follows) # <<>>

\* forbid_follows_in_create: TRUE when it raises
forbid_follows_in_create(follows) == ~IsNone(follows)

\* (the default applied whatever the state)
create_dt_execution_any(state, dt_execution, now) ==
  IF IsNone(dt_execution) THEN Some(now) ELSE dt_execution

\* the dt_execution that create() goes on with: the one given, else the
\* current date and time for state done, else none (it raises)
create_dt_execution(state, dt_execution, now) ==
  IF IsNone(dt_execution)
  THEN IF state = "done" THEN Some(now) ELSE None
  ELSE dt_execution

\* (after_insert called before the edges are added)
create_hook_first(s, now, type, state, follows, dt_execution, dt_start, inputs) ==
  IF forbid_follows_in_create(follows)
  THEN Raise(s, "OperationCreateArgFollows", type)
  ELSE IF IsNone(create_dt_execution(state, dt_execution, now))
  THEN Raise(s, "OperationError", type)
  ELSE
    LET dt == Val(create_dt_execution(state, dt_execution, now))
        s1 == Log(s, <<"check_create_conditions", 0, state, dt>>)
    IN IF ~check_create_conditions(s1, state, dt, type, inputs)
       THEN Raise(s1, "OperationNotExecutable", type)
       ELSE IF "find_parent_operations" \in s1.unimplemented
       THEN Raise(Log(s1, <<"find_parent_operations", 0>>),
                  "NotImplementedError", type)
       ELSE
         LET parents == find_parent_operations(s1, inputs)
             s2 == Log(s1, <<"find_parent_operations", 0, parents>>)
             op == s2.nextId
             s3 == Log(insert(s2, type, state, dt, inputs), <<"insert", op>>)
             s4 == after_insert(Log(s3, <<"after_insert", op, Follows(s3, op)>>), op)
             s5 == follows_extend(s4, op, parents)
         IN [s5 EXCEPT !.ret = <<op>>]

\* Operation.create: the store after the call; ret is <<id>> of the new
\* operation. follows, dt_execution and dt_start are optional.
create(s, now, type, state, follows, dt_execution, dt_start, inputs) ==
  IF forbid_follows_in_create(follows)
  THEN Raise(s, "OperationCreateArgFollows", type)
  ELSE IF IsNone(create_dt_execution(state, dt_execution, now))
  THEN Raise(s, "OperationError", type)
  ELSE
    LET dt == Val(create_dt_execution(state, dt_execution, now))
        s1 == Log(s, <<"check_create_conditions", 0, state, dt>>)
    IN IF ~check_create_conditions(s1, state, dt, type, inputs)
       THEN Raise(s1, "OperationNotExecutable", type)
       ELSE IF "find_parent_operations" \in s1.unimplemented
       THEN Raise(Log(s1, <<"find_parent_operations", 0>>),
                  "NotImplementedError", type)
       ELSE
         LET parents == find_parent_operations(s1, inputs)
             s2 == Log(s1, <<"find_parent_operations", 0, parents>>)
             op == s2.nextId
             s3 == Log(insert(s2, type, state, dt, inputs), <<"insert", op>>)
             s4 == follows_extend(s3, op, parents)
             s5 == after_insert(Log(s4, <<"after_insert", op, Follows(s4, op)>>), op)
         IN [s5 EXCEPT !.ret = <<op>>]

\* (execute without the test of the state)
execute_again(s, x, now, dt_execution) ==
  LET dt == IF IsNone(dt_execution) THEN now ELSE Val(dt_execution)
      s1 == [s EXCEPT !.ops[x].dt_execution = dt,
                      !.ops[x].dt_start = IF IsNone(@) THEN Some(dt) ELSE @]
      s2 == Log(s1, <<"check_execute_conditions", x, s1.ops[x].dt_execution>>)
  IN IF ~check_execute_conditions(s2, x)
     THEN Raise(s2, "OperationNotExecutable", x)
     ELSE LET s3 == execute_planned(
                      Log(s2, <<"execute_planned", x, s2.ops[x].state>>), x)
          IN [s3 EXCEPT !.ops[x].state = "done"]

\* (execute that takes its date and time as the start in every case)
execute_restart(s, x, now, dt_execution) ==
  IF s.ops[x].state = "done" THEN s
  ELSE
    LET dt == IF IsNone(dt_execution) THEN now ELSE Val(dt_execution)
        s1 == [s EXCEPT !.ops[x].dt_execution = dt,
                        !.ops[x].dt_start = Some(dt)]
        s2 == Log(s1, <<"check_execute_conditions", x, s1.ops[x].dt_execution>>)
    IN IF ~check_execute_conditions(s2, x)
       THEN Raise(s2, "OperationNotExecutable", x)
       ELSE LET s3 == execute_planned(
                        Log(s2, <<"execute_planned", x, s2.ops[x].state>>), x)
            IN [s3 EXCEPT !.ops[x].state = "done"]

\* (a planned operation started first, and done by a second execute)
execute_by_steps(s, x, now, dt_execution) ==
  IF s.ops[x].state = "done" THEN s
  ELSE
    LET dt == IF IsNone(dt_execution) THEN now ELSE Val(dt_execution)
        s1 == [s EXCEPT !.ops[x].dt_execution = dt,
                        !.ops[x].dt_start = IF IsNone(@) THEN Some(dt) ELSE @]
        s2 == Log(s1, <<"check_execute_conditions", x, s1.ops[x].dt_execution>>)
    IN IF ~check_execute_conditions(s2, x)
       THEN Raise(s2, "OperationNotExecutable", x)
       ELSE LET s3 == execute_planned(
                        Log(s2, <<"execute_planned", x, s2.ops[x].state>>), x)
            IN [s3 EXCEPT !.ops[x].state =
                            IF @ = "planned" THEN "started" ELSE "done"]

\* Operation.execute
execute(s, x, now, dt_execution) ==
  IF s.ops[x].state = "done" THEN s
  ELSE
    LET dt == IF IsNone(dt_execution) THEN now ELSE Val(dt_execution)
        s1 == [s EXCEPT !.ops[x].dt_execution = dt,
                        !.ops[x].dt_start = IF IsNone(@) THEN Some(dt) ELSE @]
        s2 == Log(s1, <<"check_execute_conditions", x, s1.ops[x].dt_execution>>)
    IN IF ~check_execute_conditions(s2, x)
       THEN Raise(s2, "OperationNotExecutable", x)
       ELSE LET s3 == execute_planned(
                        Log(s2, <<"execute_planned", x, s2.ops[x].state>>), x)
            IN [s3 EXCEPT !.ops[x].state = "done"]

\* Operation.cancel. The tuple of followers is taken before the loop; an
\* operation of it that an earlier step deleted is no longer a row: what the
\* call on the stale object does is not defined by this code, and is either
\* an error of the session or a second pass over the object (stale).
RECURSIVE cancel(_, _, _)
RECURSIVE cancel_followers(_, _, _)

\* (cancel without the test of the state)
cancel_unguarded(s, x, stale) ==
  IF x \notin Ids(s)
  THEN IF stale = "raise" THEN Raise(Log(s, <<"stale", x>>), "ObjectDeletedError", x)
       ELSE Log(Log(Log(s, <<"stale", x>>), <<"cancel_single", x>>), <<"delete", x>>)
  ELSE
    LET followers == SortedSeq(Followers(s, x))
        s1 == cancel_followers(Log(s, <<"visit", x>>), followers, stale)
    IN IF Failed(s1) THEN s1
       ELSE LET s2 == cancel_single(Log(s1, <<"cancel_single", x>>), x)
                s3 == follows_clear(s2, x)
            IN delete(Log(s3, <<"delete", x>>), x)

\* (cancel that deals with the operation before its followers)
cancel_preorder(s, x, stale) ==
  IF x \notin Ids(s)
  THEN IF stale = "raise" THEN Raise(Log(s, <<"stale", x>>), "ObjectDeletedError", x)
       ELSE Log(Log(Log(s, <<"stale", x>>), <<"cancel_single", x>>), <<"delete", x>>)
  ELSE IF s.ops[x].state # "planned" THEN Raise(s, "OperationError", x)
  ELSE
    LET followers == SortedSeq(Followers(s, x))
        s1 == cancel_single(Log(Log(s, <<"visit", x>>), <<"cancel_single", x>>), x)
        s2 == follows_clear(s1, x)
        s3 == delete(Log(s2, <<"delete", x>>), x)
    IN cancel_followers(s3, followers, stale)

cancel(s, x, stale) ==
  IF x \notin Ids(s)
  THEN IF stale = "raise" THEN Raise(Log(s, <<"stale", x>>), "ObjectDeletedError", x)
       ELSE Log(Log(Log(s, <<"stale", x>>), <<"cancel_single", x>>), <<"delete", x>>)
  ELSE IF s.ops[x].state # "planned" THEN Raise(s, "OperationError", x)
  ELSE
    LET followers == SortedSeq(Followers(s, x))
        s1 == cancel_followers(Log(s, <<"visit", x>>), followers, stale)
    IN IF Failed(s1) THEN s1
       ELSE LET s2 == cancel_single(Log(s1, <<"cancel_single", x>>), x)
                s3 == follows_clear(s2, x)
            IN delete(Log(s3, <<"delete", x>>), x)

cancel_followers(s, followers, stale) ==
  IF followers = <<>> \/ Failed(s) THEN s
  ELSE cancel_followers(cancel(s, Head(followers), stale), Tail(followers), stale)

\* Operation.obliviate
RECURSIVE obliviate(_, _, _)
RECURSIVE obliviate_followers(_, _, _)

\* (obliviate that cancels the planned operations it meets)
obliviate_or_cancel(s, x, stale) ==
  IF x \notin Ids(s)
  THEN IF stale = "raise" THEN Raise(Log(s, <<"stale", x>>), "ObjectDeletedError", x)
       ELSE Log(Log(Log(s, <<"stale", x>>), <<"obliviate_single", x>>), <<"delete", x>>)
  ELSE IF s.ops[x].state = "planned" THEN cancel(s, x, stale)
  ELSE IF s.ops[x].state # "done" THEN Raise(s, "OperationError", x)
  ELSE
    LET followers == SortedSeq(Followers(s, x))
        s1 == obliviate_followers(Log(s, <<"visit", x>>), followers, stale)
    IN IF Failed(s1) THEN s1
       ELSE LET s2 == obliviate_single(Log(s1, <<"obliviate_single", x>>), x)
                s3 == follows_clear(s2, x)
            IN delete(Log(s3, <<"delete", x>>), x)

obliviate(s, x, stale) ==
  IF x \notin Ids(s)
  THEN IF stale = "raise" THEN Raise(Log(s, <<"stale", x>>), "ObjectDeletedError", x)
       ELSE Log(Log(Log(s, <<"stale", x>>), <<"obliviate_single", x>>), <<"delete", x>>)
  ELSE IF s.ops[x].state # "done" THEN Raise(s, "OperationError", x)
  ELSE
    LET followers == SortedSeq(Followers(s, x))
        s1 == obliviate_followers(Log(s, <<"visit", x>>), followers, stale)
    IN IF Failed(s1) THEN s1
       ELSE LET s2 == obliviate_single(Log(s1, <<"obliviate_single", x>>), x)
                s3 == follows_clear(s2, x)
            IN delete(Log(s3, <<"delete", x>>), x)

obliviate_followers(s, followers, stale) ==
  IF followers = <<>> \/ Failed(s) THEN s
  ELSE obliviate_followers(obliviate(s, Head(followers), stale),
                           Tail(followers), stale)

\* (every operation reversible)
is_reversible_always(s, x) == TRUE

\* Operation.is_reversible: False, unless the subtype overrides it
is_reversible(s, x) ==
  IF s.ops[x].type \in ReversibleTypes THEN TRUE ELSE FALSE

\* plan_revert_single of the subtypes: a planned operation of the reverting
\* type that follows the given reversals, or the operation itself at the end
\* of a chain, and takes the outcomes of those as its inputs
plan_revert_single(s, x, dt_execution, follows) ==
  LET parents == IF follows = <<>> THEN <<x>> ELSE follows
      inputs == {a \in AvIds(s) : /\ s.avatars[a].reason \in SeqToSet(parents)
                                  /\ Consumers(s, a) = {}}
      r == s.nextId
      s1 == insert(s, ReversalType(s.ops[x].type), "planned", dt_execution, inputs)
      s2 == follows_extend(s1, r, parents)
  IN [after_insert(s2, r) EXCEPT !.ret = <<r>>]

\* Operation.plan_revert: ret is <<this_reversal, exec_leafs>>. The loop
\* reads self.followers as it goes; the recursive call passes no dt_execution.
RECURSIVE plan_revert(_, _, _, _)
RECURSIVE plan_revert_followers(_, _, _, _, _)

\* (the reversal made to follow the leaves instead of the followers' reversals)
plan_revert_after_leafs(s, x, now, dt_execution) ==
  LET dt == IF IsNone(dt_execution) THEN now ELSE Val(dt_execution)
  IN IF s.ops[x].state # "done" THEN Raise(s, "OperationError", x)
     ELSE IF ~is_reversible(s, x) THEN Raise(s, "OperationIrreversibleError", x)
     ELSE
       LET followers == SortedSeq(Followers(s, x))
           s1 == plan_revert_followers(
                   [Log(s, <<"visit", x>>) EXCEPT !.ret = <<>>],
                   followers, now, <<>>, <<>>)
       IN IF Failed(s1) THEN s1
          ELSE
            LET exec_leafs == s1.ret[2]
                s2 == plan_revert_single(
                        Log(s1, <<"plan_revert_single", x, dt, exec_leafs>>),
                        x, dt, exec_leafs)
                this_reversal == s2.ret[1]
            IN [Log(s2, <<"reversal", x, this_reversal>>)
                  EXCEPT !.ret = <<this_reversal,
                           IF exec_leafs = <<>> THEN <<this_reversal>>
                           ELSE exec_leafs>>]

\* (the reversal always added to the leaves)
plan_revert_leaf_always(s, x, now, dt_execution) ==
  LET dt == IF IsNone(dt_execution) THEN now ELSE Val(dt_execution)
  IN IF s.ops[x].state # "done" THEN Raise(s, "OperationError", x)
     ELSE IF ~is_reversible(s, x) THEN Raise(s, "OperationIrreversibleError", x)
     ELSE
       LET followers == SortedSeq(Followers(s, x))
           s1 == plan_revert_followers(
                   [Log(s, <<"visit", x>>) EXCEPT !.ret = <<>>],
                   followers, now, <<>>, <<>>)
       IN IF Failed(s1) THEN s1
          ELSE
            LET followers_reverts == s1.ret[1]
                exec_leafs == s1.ret[2]
                s2 == plan_revert_single(
                        Log(s1, <<"plan_revert_single", x, dt, followers_reverts>>),
                        x, dt, followers_reverts)
                this_reversal == s2.ret[1]
            IN [Log(s2, <<"reversal", x, this_reversal>>)
                  EXCEPT !.ret = <<this_reversal,
                                   Append(exec_leafs, this_reversal)>>]

\* (no test of the state)
plan_revert_any_state(s, x, now, dt_execution) ==
  LET dt == IF IsNone(dt_execution) THEN now ELSE Val(dt_execution)
  IN IF ~is_reversible(s, x) THEN Raise(s, "OperationIrreversibleError", x)
     ELSE
       LET followers == SortedSeq(Followers(s, x))
           s1 == plan_revert_followers(
                   [Log(s, <<"visit", x>>) EXCEPT !.ret = <<>>],
                   followers, now, <<>>, <<>>)
       IN IF Failed(s1) THEN s1
          ELSE
            LET followers_reverts == s1.ret[1]
                exec_leafs == s1.ret[2]
                s2 == plan_revert_single(
                        Log(s1, <<"plan_revert_single", x, dt, followers_reverts>>),
                        x, dt, followers_reverts)
                this_reversal == s2.ret[1]
            IN [Log(s2, <<"reversal", x, this_reversal>>)
                  EXCEPT !.ret = <<this_reversal,
                           IF exec_leafs = <<>> THEN <<this_reversal>>
                           ELSE exec_leafs>>]

plan_revert(s, x, now, dt_execution) ==
  LET dt == IF IsNone(dt_execution) THEN now ELSE Val(dt_execution)
  IN IF s.ops[x].state # "done" THEN Raise(s, "OperationError", x)
     ELSE IF ~is_reversible(s, x) THEN Raise(s, "OperationIrreversibleError", x)
     ELSE
       LET followers == SortedSeq(Followers(s, x))
           s1 == plan_revert_followers(
                   [Log(s, <<"visit", x>>) EXCEPT !.ret = <<>>],
                   followers, now, <<>>, <<>>)
       IN IF Failed(s1) THEN s1
          ELSE
            LET followers_reverts == s1.ret[1]
                exec_leafs == s1.ret[2]
                s2 == plan_revert_single(
                        Log(s1, <<"plan_revert_single", x, dt, followers_reverts>>),
                        x, dt, followers_reverts)
                this_reversal == s2.ret[1]
            IN [Log(s2, <<"reversal", x, this_reversal>>)
                  EXCEPT !.ret = <<this_reversal,
                           IF exec_leafs = <<>> THEN <<this_reversal>>
                           ELSE exec_leafs>>]

\* (a loop that ends after the first follower)
plan_revert_followers_first(s, followers, now, followers_reverts, exec_leafs) ==
  IF Failed(s) THEN s
  ELSE IF followers = <<>>
  THEN [s EXCEPT !.ret = <<followers_reverts, exec_leafs>>]
  ELSE
    LET read == IF s.nows = <<>> THEN now ELSE Head(s.nows)
        s1 == plan_revert([s EXCEPT !.nows = IF @ = <<>> THEN @ ELSE Tail(@),
                                    !.reads = Append(@, read)],
                          Head(followers), read, None)
    IN IF Failed(s1) THEN s1
       ELSE [s1 EXCEPT !.ret = <<Append(followers_reverts, s1.ret[1]),
                                 exec_leafs \o s1.ret[2]>>]

\* the loop of plan_revert: ret is <<followers_reverts, exec_leafs>>. Each
\* follower.plan_revert() is given no dt_execution and reads the clock for
\* it, at an instant of its own: s.nows are the readings to come, s.reads
\* those made, and now is the latest (what the clock still says when no
\* reading to come is given).
plan_revert_followers(s, followers, now, followers_reverts, exec_leafs) ==
  IF Failed(s) THEN s
  ELSE IF followers = <<>>
  THEN [s EXCEPT !.ret = <<followers_reverts, exec_leafs>>]
  ELSE
    LET read == IF s.nows = <<>> THEN now ELSE Head(s.nows)
        s1 == plan_revert([s EXCEPT !.nows = IF @ = <<>> THEN @ ELSE Tail(@),
                                    !.reads = Append(@, read)],
                          Head(followers), read, None)
    IN IF Failed(s1) THEN s1
       ELSE plan_revert_followers(s1, Tail(followers), read,
                                  Append(followers_reverts, s1.ret[1]),
                                  exec_leafs \o s1.ret[2])


\* ---------------------------------------------------------------- calls
\* the rows of a store
Snapshot(s) == [ops |-> s.ops, edges |-> s.edges, avatars |-> s.avatars,
                nextId |-> s.nextId]

\* no call is in progress: the caller has taken the result of the latest one
Idle == [call |-> "idle", self |-> 0, args |-> <<>>, err |-> "none",
         ret |-> <<>>, log |-> <<>>,
         pre |-> [ops |-> <<>>, edges |-> {}, avatars |-> <<>>, nextId |-> 1],
         now |-> 0]

\* a call leaves the rows as the handler left them (also when it raised: the
\* session is not rolled back by this code) and the record of the call: the
\* rows before it, the clock, its arguments, and what it raised, returned
\* and went through
Commit(call, self, args, r) ==
  /\ last.call = "idle"
  /\ calls' = calls + 1
  /\ ops' = r.ops
  /\ edges' = r.edges
  /\ avatars' = r.avatars
  /\ nextId' = r.nextId
  /\ last' = [call |-> call, self |-> self, args |-> args, err |-> r.err,
              ret |-> r.ret, log |-> r.log, pre |-> Snapshot(Store),
              now |-> clock]
  /\ clock' = IF r.reads = <<>> THEN clock ELSE r.reads[Len(r.reads)]
  /\ UNCHANGED ledger

\* the caller takes the result
Return ==
  /\ last.call # "idle"
  /\ last' = Idle
  /\ UNCHANGED <<ops, edges, avatars, nextId, clock, calls, ledger>>

\* the values a caller may pass as follows: nothing, or a list of operations
FollowsArgs == {None, Some(<<>>)} \cup {Some(<<p>>) : p \in Ids(Store)}
\* the sets of avatars a caller may pass as inputs: any set of at most two,
\* or only those of the size that the type takes
InputsArgs(type, sized) ==
  {I \in SUBSET AvIds(Store) :
     IF sized THEN Cardinality(I) = NIn(type) ELSE Cardinality(I) <= 2}
\* what a call on an object whose row is gone may do
StaleOutcomes == {"raise", "again"}

\* no call on the locations and goods is in progress
NoQuery == [call |-> "idle", self |-> 0, args |-> <<>>, err |-> "none",
            ret |-> <<>>, pre |-> <<>>]
\* no location and no goods
NoLedger ==
  /\ locations = <<>>
  /\ goods = <<>>
  /\ goods_types = [t \in GoodsTypes |-> NoBehaviours]
  /\ properties = <<>>
  /\ query = NoQuery

Init ==
  /\ ops = <<>>
  /\ edges = {}
  /\ avatars = <<>>
  /\ nextId = 1
  /\ clock = 0
  /\ calls = 0
  /\ last = Idle
  /\ NoLedger

\* time passes
Tick ==
  /\ last.call = "idle"
  /\ clock < MaxTime
  /\ clock' = clock + 1
  /\ UNCHANGED <<ops, edges, avatars, nextId, calls, last, ledger>>

CreateCall(maxCalls, maxOps, types, followsArgs, dtArgs, dtStartArgs, sized, subtypes) ==
  /\ calls < maxCalls
  /\ nextId <= maxOps
  /\ \E type \in types, state \in OPERATION_STATES,
        follows \in followsArgs, dt_execution \in dtArgs,
        dt_start \in dtStartArgs, unimplemented \in subtypes :
     \E inputs \in InputsArgs(type, sized) :
       Commit("create", 0,
              [type |-> type, state |-> state, follows |-> follows,
               dt_execution |-> dt_execution, dt_start |-> dt_start,
               inputs |-> inputs],
              create([Store EXCEPT !.unimplemented = unimplemented], clock,
                     type, state, follows, dt_execution, dt_start, inputs))

ExecuteCall(maxCalls, dtArgs) ==
  /\ calls < maxCalls
  /\ \E x \in Ids(Store), dt_execution \in dtArgs :
       Commit("execute", x, [dt_execution |-> dt_execution],
              execute(Store, x, clock, dt_execution))

CancelCall(maxCalls) ==
  /\ calls < maxCalls
  /\ \E x \in Ids(Store), stale \in StaleOutcomes :
       Commit("cancel", x, <<>>, cancel(Store, x, stale))

ObliviateCall(maxCalls) ==
  /\ calls < maxCalls
  /\ \E x \in Ids(Store), stale \in StaleOutcomes :
       Commit("obliviate", x, <<>>, obliviate(Store, x, stale))

\* what the clock can say at n successive readings from an instant on
RECURSIVE Readings(_, _)
Readings(from, n) ==
  IF n = 0 THEN {<<>>}
  ELSE UNION {{<<t>> \o r : r \in Readings(t, n - 1)} : t \in from..MaxTime}

\* how many times a call of x.plan_revert() reads the clock on behalf of
\* the followers: once in each of the calls it makes down the graph
ClockReads(s, x) == Len(plan_revert(s, x, 0, Some(0)).reads)

PlanRevertCall(maxCalls, maxIds, dtArgs) ==
  /\ calls < maxCalls
  /\ \E x \in Ids(Store), dt_execution \in dtArgs :
       \E nows \in Readings(clock, ClockReads(Store, x)) :
         LET r == plan_revert([Store EXCEPT !.nows = nows], x, clock,
                              dt_execution)
         IN /\ r.nextId <= maxIds + 1
            /\ Commit("plan_revert", x, [dt_execution |-> dt_execution], r)

\* Arrivals and moves from any caller: any state, dates and times, follows
\* and inputs
Create == CreateCall(MaxCalls, MaxOps, {"arrival", "move"}, FollowsArgs,
                     OptTimes, {None}, FALSE, {{}})
Execute == ExecuteCall(MaxCalls, OptTimes)
Cancel == CancelCall(MaxCalls)
Obliviate == ObliviateCall(MaxCalls)
PlanRevert == PlanRevertCall(MaxCalls, MaxIds, OptTimes)

Next ==
  Tick \/ Create \/ Execute \/ Cancel \/ Obliviate \/ PlanRevert \/ Return

Spec == Init /\ [][Next]_vars

\* The graphs that grow from one arrival: the store after
\* create(state='done') of an Arrival at time 0, then callers that plan at the
\* current time, execute and revert without a date, and pass inputs of the
\* size the type takes
InitGraph ==
  LET r == create(Idle.pre @@ [log |-> <<>>, err |-> "none", ret |-> <<>>,
                              unimplemented |-> {}],
                  0, "arrival", "done", None, None, None, {})
  IN /\ ops = r.ops
     /\ edges = r.edges
     /\ avatars = r.avatars
     /\ nextId = r.nextId
     /\ clock = 0
     /\ calls = 0
     /\ last = Idle
     /\ NoLedger

CreateG == CreateCall(MaxGraphCalls, MaxGraphIds - MaxReversals,
                      OPERATION_TYPES \ {"arrival"},
                      {None}, {Some(clock)}, {None}, TRUE,
                      {{}, {"find_parent_operations"}})
ExecuteG == ExecuteCall(MaxGraphCalls, {None})
CancelG == CancelCall(MaxGraphCalls)
ObliviateG == ObliviateCall(MaxGraphCalls)
PlanRevertG == PlanRevertCall(MaxGraphCalls, MaxGraphIds, {None})

NextGraph ==
  CreateG \/ ExecuteG \/ CancelG \/ ObliviateG \/ PlanRevertG \/ Return

SpecGraph == InitGraph /\ [][NextGraph]_vars

\* x.plan_revert() once more, right after it returned
PlanRevertAgain(maxCalls, maxIds) ==
  /\ last.call = "plan_revert" /\ last.err = "none"
  /\ calls < maxCalls
  /\ \E nows \in Readings(clock, ClockReads(Store, last.self)) :
     LET r == plan_revert([Store EXCEPT !.nows = nows], last.self, clock, None)
     IN /\ r.nextId <= maxIds + 1
        /\ calls' = calls + 1
        /\ ops' = r.ops
        /\ edges' = r.edges
        /\ avatars' = r.avatars
        /\ nextId' = r.nextId
        /\ last' = [call |-> "plan_revert_again", self |-> last.self,
                    args |-> [dt_execution |-> None,
                              reversals |-> DOMAIN ops \ DOMAIN last.pre.ops],
                    err |-> r.err, ret |-> r.ret, log |-> r.log,
                    pre |-> Snapshot(Store), now |-> clock]
        /\ clock' = IF r.reads = <<>> THEN clock ELSE r.reads[Len(r.reads)]
  /\ UNCHANGED ledger

\* The graphs that grow from one arrival, reverted, and reverted once more
\* while the reversals are planned
PlanRevertAgainG == PlanRevertAgain(MaxGraphCalls, MaxGraphIds)

NextRepeat == CreateG \/ ExecuteG \/ PlanRevertG \/ PlanRevertAgainG \/ Return

SpecRepeat == InitGraph /\ [][NextRepeat]_vars


\* The dates and times of a chain: the store after the creation of a planned
\* Arrival, of a started Move of its outcome and of a planned Move of the
\* outcome of that one, all three for the end of the period; then callers that
\* execute and revert with or without a date, while time passes
RECURSIVE create_chain(_, _, _)
create_chain(s, chain, dt) ==
  IF chain = <<>> THEN s
  ELSE LET type == Head(chain)[1]
           state == Head(chain)[2]
           last_op == s.nextId - 1
           inputs == IF NIn(type) = 0 THEN {} ELSE {<<last_op, 1>>}
       IN create_chain(create(s, 0, type, state, None, Some(dt), None, inputs),
                       Tail(chain), dt)

InitChain ==
  LET r == create_chain(Idle.pre @@ [log |-> <<>>, err |-> "none", ret |-> <<>>,
                              unimplemented |-> {}],
                        <<<<"arrival", "planned">>, <<"move", "started">>,
                          <<"move", "planned">>>>,
                        MaxTime)
  IN /\ ops = r.ops
     /\ edges = r.edges
     /\ avatars = r.avatars
     /\ nextId = r.nextId
     /\ clock = 0
     /\ calls = 0
     /\ last = Idle
     /\ NoLedger

ExecuteT == ExecuteCall(MaxChainCalls, OptTimes)
PlanRevertT == PlanRevertCall(MaxChainCalls, MaxChainIds, OptTimes)

NextChain == Tick \/ ExecuteT \/ PlanRevertT \/ Return

SpecChain == InitChain /\ [][NextChain]_vars

\* ------------------------------------------------- Location (location.py)
Dates == 0..MaxDate
\* anyblok_wms_base.constants.DATE_TIME_INFINITY: later than any date and time
DATE_TIME_INFINITY == MaxDate + 1
Tags == {None, Some("sellable"), Some("qa")}

\* the sum of the quantities of the rows of gs whose ids are in S
RECURSIVE SumQuantity(_, _)
SumQuantity(gs, S) ==
  IF S = {} THEN 0
  ELSE LET i == CHOOSE j \in S : TRUE
       IN gs[i].quantity + SumQuantity(gs, S \ {i})

\* Location.base_quantity_query: the avatars joined with their goods, without
\* any filtering, and whether count() is to be used
base_quantity_query(gs) == [query |-> DOMAIN gs, use_count |-> TRUE]

\* (an interval closed on both sides)
in_date_range_closed(g, at_datetime) ==
  /\ g.dt_from <= at_datetime
  /\ (IsNone(g.dt_until) \/ Val(g.dt_until) >= at_datetime)

\* the filter of Location.quantity on the dates and times, for an at_datetime
\* other than DATE_TIME_INFINITY
in_date_range(g, at_datetime) ==
  /\ g.dt_from <= at_datetime
  /\ (IsNone(g.dt_until) \/ Val(g.dt_until) > at_datetime)

\* (the additional states, without present)
quantity_states_only(additional_states) ==
  IF IsNone(additional_states) THEN {"present"} ELSE Val(additional_states)

\* the states that Location.quantity filters on
quantity_states(additional_states) ==
  IF IsNone(additional_states) THEN {"present"}
  ELSE {"present"} \cup Val(additional_states)

\* (at_datetime wanted only for additional states that are not empty)
quantity_value_error_truthy(additional_states, at_datetime) ==
  /\ ~IsNone(additional_states) /\ Val(additional_states) # {}
  /\ IsNone(at_datetime)

\* Location.quantity raises ValueError
quantity_value_error(additional_states, at_datetime) ==
  ~IsNone(additional_states) /\ IsNone(at_datetime)

\* Location.quantity: err is "ValueError" if it raises, else ret is the
\* quantity
quantity(gs, self, goods_type, additional_states, at_datetime) ==
  LET base == base_quantity_query(gs)
      q1 == {i \in base.query : gs[i].type = goods_type /\ gs[i].location = self}
      q2 == {i \in q1 : gs[i].state \in quantity_states(additional_states)}
  IN IF quantity_value_error(additional_states, at_datetime)
     THEN [err |-> "ValueError", ret |-> <<>>]
     ELSE
       LET q3 == IF at_datetime = Some(DATE_TIME_INFINITY)
                 THEN {i \in q2 : IsNone(gs[i].dt_until)}
                 ELSE IF ~IsNone(at_datetime)
                 THEN {i \in q2 : in_date_range(gs[i], Val(at_datetime))}
                 ELSE q2
       IN [err |-> "none",
           ret |-> IF base.use_count THEN <<Cardinality(q3)>>
                   ELSE <<SumQuantity(gs, q3)>>]

\* func.coalesce(child.tag, parent.c.tag)
coalesce(a, b) == IF IsNone(a) THEN b ELSE a

\* Location.tag_cte: the rows <<id, tag>> of the recursive query, as a tuple.
\* cte_children is the recursive term applied to the rows found last, and
\* cte_union_all the union of all the rows found
RECURSIVE cte_children(_, _)
cte_children(locs, found) ==
  IF found = <<>> THEN <<>>
  ELSE LET parent == Head(found)
           children == SortedSeq({c \in DOMAIN locs :
                                    locs[c].parent = Some(parent[1])})
       IN [i \in 1..Len(children) |->
             <<children[i], coalesce(locs[children[i]].tag, parent[2])>>]
          \o cte_children(locs, Tail(found))

RECURSIVE cte_union_all(_, _)
cte_union_all(locs, found) ==
  IF found = <<>> THEN <<>>
  ELSE found \o cte_union_all(locs, cte_children(locs, found))

tag_cte(locs, top) ==
  LET tops == IF IsNone(top)
              THEN SortedSeq({l \in DOMAIN locs : IsNone(locs[l].parent)})
              ELSE <<Val(top)>>
  IN cte_union_all(locs, [i \in 1..Len(tops) |-> <<tops[i], locs[tops[i]].tag>>])

\* a call on the locations and goods, and the record of it
Ask(call, self, args, r) ==
  /\ query.call = "idle"
  /\ query' = [call |-> call, self |-> self, args |-> args, err |-> r.err,
               ret |-> r.ret, pre |-> goods]
  /\ UNCHANGED <<operations, catalogue>>

\* the caller takes the result
Answer ==
  /\ query.call # "idle"
  /\ query' = NoQuery
  /\ UNCHANGED <<operations, locations, goods, catalogue>>

\* Location.insert, under a location that is there or under none
InsertLocation ==
  /\ query.call = "idle"
  /\ Len(locations) < MaxLocations
  /\ \E parent \in {None} \cup {Some(l) : l \in DOMAIN locations}, tag \in Tags :
       locations' = Append(locations, [parent |-> parent, tag |-> tag])
  /\ UNCHANGED <<operations, goods, catalogue, query>>

\* the records of goods that can be in a location: of a type, in a state,
\* from a date and time until a later one if any, of some quantity
GoodsRowsOf(dates, quantities) ==
  {g \in [type : GoodsTypes, location : DOMAIN locations, state : AVATAR_STATES,
          dt_from : dates, dt_until : {None} \cup {Some(d) : d \in dates},
          quantity : quantities, reason : {0}] :
     IsNone(g.dt_until) \/ Val(g.dt_until) > g.dt_from}
GoodsRows == GoodsRowsOf(Dates, 1..MaxQuantity)

\* Goods.insert
InsertGoods ==
  /\ query.call = "idle"
  /\ Len(goods) < MaxGoods
  /\ \E g \in GoodsRows : goods' = Append(goods, g)
  /\ UNCHANGED <<operations, locations, catalogue, query>>

\* the values a caller may pass as additional_states and as at_datetime
AdditionalStatesArgs ==
  {None} \cup {Some(S) : S \in SUBSET (AVATAR_STATES \ {"present"})}
AtDatetimeArgs ==
  {None} \cup {Some(d) : d \in Dates \cup {DATE_TIME_INFINITY}}

QuantityCall ==
  \E self \in DOMAIN locations, goods_type \in GoodsTypes,
     additional_states \in AdditionalStatesArgs, at_datetime \in AtDatetimeArgs :
    /\ Ask("quantity", self,
           [goods_type |-> goods_type, additional_states |-> additional_states,
            at_datetime |-> at_datetime],
           quantity(goods, self, goods_type, additional_states, at_datetime))
    /\ UNCHANGED <<locations, goods>>

TagCteCall ==
  \E top \in {None} \cup {Some(l) : l \in DOMAIN locations} :
    /\ Ask("tag_cte", 0, [top |-> top],
           [err |-> "none", ret |-> tag_cte(locations, top)])
    /\ UNCHANGED <<locations, goods>>

\* no operation
NoOperations ==
  /\ ops = <<>>
  /\ edges = {}
  /\ avatars = <<>>
  /\ nextId = 1
  /\ clock = 0
  /\ calls = 0
  /\ last = Idle

\* The quantities of a location: a location and one under it, goods inserted
\* in them, and quantity() asked of either
InitQuantity ==
  /\ NoOperations
  /\ locations = <<[parent |-> None, tag |-> None],
                   [parent |-> Some(1), tag |-> None]>>
  /\ goods = <<>>
  /\ goods_types = [t \in GoodsTypes |-> NoBehaviours]
  /\ properties = <<>>
  /\ query = NoQuery

NextQuantity == InsertGoods \/ QuantityCall \/ Answer

SpecQuantity == InitQuantity /\ [][NextQuantity]_vars

\* The tags of the locations: locations inserted from the top down, with or
\* without a tag, and tag_cte() asked from any of them or from none
InitTags ==
  /\ NoOperations
  /\ NoLedger

NextTags == InsertLocation \/ TagCteCall \/ Answer

SpecTags == InitTags /\ [][NextTags]_vars

\* -------------------------------------- Split and Aggregate (subtypes)
\* the id of the next operation that is the reason of goods
NextReason(gs) ==
  1 + Max({0} \cup {gs[i].reason : i \in DOMAIN gs})

\* (a split that leaves the quantity of the original record as it is)
split_create_keep(gs, g, quantity_) ==
  IF gs[g].state # "present" \/ quantity_ > gs[g].quantity
  THEN [goods |-> gs, err |-> "OperationNotExecutable", ret |-> <<>>]
  ELSE LET split == NextReason(gs)
       IN [goods |-> Append([gs EXCEPT ![g].reason = split],
                            [gs[g] EXCEPT !.quantity = quantity_,
                                          !.reason = split]),
           err |-> "none", ret |-> <<split>>]

\* Split.create(state='done', goods=g, quantity=quantity_): the record keeps
\* what is left, a new record of the same type at the same location has the
\* quantity split off, and the split is the reason of both
split_create(gs, g, quantity_) ==
  IF gs[g].state # "present" \/ quantity_ > gs[g].quantity
  THEN [goods |-> gs, err |-> "OperationNotExecutable", ret |-> <<>>]
  ELSE LET split == NextReason(gs)
       IN [goods |-> Append([gs EXCEPT ![g].quantity = @ - quantity_,
                                       ![g].reason = split],
                            [gs[g] EXCEPT !.quantity = quantity_,
                                          !.reason = split]),
           err |-> "none", ret |-> <<split>>]

\* Aggregate.create(state='done', goods=[g1, g2]): the two records, present,
\* of one type and at one location, become past, and a new record has the
\* two quantities together
aggregate_create(gs, g1, g2) ==
  IF \/ gs[g1].state # "present" \/ gs[g2].state # "present"
     \/ gs[g1].type # gs[g2].type \/ gs[g1].location # gs[g2].location
  THEN [goods |-> gs, err |-> "OperationNotExecutable", ret |-> <<>>]
  ELSE LET aggregate == NextReason(gs)
       IN [goods |-> Append([gs EXCEPT ![g1].state = "past",
                                       ![g2].state = "past"],
                            [gs[g1] EXCEPT
                               !.quantity = gs[g1].quantity + gs[g2].quantity,
                               !.reason = aggregate]),
           err |-> "none", ret |-> <<aggregate>>]

\* Goods.insert of goods to be split: at one date, of any quantity
InsertStock ==
  /\ query.call = "idle"
  /\ Len(goods) < MaxGoods
  /\ \E g \in GoodsRowsOf({0}, 1..MaxSplitQuantity) : goods' = Append(goods, g)
  /\ UNCHANGED <<operations, locations, catalogue, query>>

SplitCall ==
  /\ Len(goods) <= MaxGoods
  /\ \E g \in DOMAIN goods, quantity_ \in 1..MaxSplitQuantity :
       LET r == split_create(goods, g, quantity_)
       IN /\ Ask("split", g, [quantity |-> quantity_], r)
          /\ goods' = r.goods
          /\ UNCHANGED locations

AggregateCall ==
  /\ Len(goods) <= MaxGoods + 1
  /\ \E g1, g2 \in DOMAIN goods :
       /\ g1 < g2
       /\ LET r == aggregate_create(goods, g1, g2)
          IN /\ Ask("aggregate", g1, [goods |-> <<g1, g2>>], r)
             /\ goods' = r.goods
             /\ UNCHANGED locations

\* The quantities through Split and Aggregate: goods inserted in a location
\* and in one under it, then split and aggregated
NextSplit == InsertStock \/ SplitCall \/ AggregateCall \/ Answer

SpecSplit == InitQuantity /\ [][NextSplit]_vars

\* ------------------------------ reversal of a Split (subtypes, scenario)
\* The goods of one arrival, split, one of the two outcomes moved or not,
\* and the split reverted. The operations are id -> [type, state, goods],
\* goods being the records the operation takes; the arrival also says what
\* arrived. The records of goods carry a reference to their properties.
PropertiesRefs == {None, Some(1)}

World == [goods |-> goods, ops |-> ops, edges |-> edges, types |-> goods_types,
          err |-> "none", ret |-> <<>>]

\* the records whose reason is the operation
OutcomesOf(w, x) == {i \in DOMAIN w.goods : w.goods[i].reason = x}
\* the operations that follow the operation
FollowersOf(w, x) == {e[2] : e \in {f \in w.edges : f[1] = x}}

\* Split.create(state='done', goods=g, quantity=quantity_), which follows
\* the reason of the goods
Split_create(w, g, quantity_) ==
  LET r == split_create(w.goods, g, quantity_)
  IN IF r.err # "none" THEN [w EXCEPT !.err = r.err]
     ELSE [w EXCEPT !.goods = r.goods,
                    !.ops = With(@, r.ret[1], [type |-> "split", state |-> "done",
                                               goods |-> <<g>>]),
                    !.edges = @ \cup {<<w.goods[g].reason, r.ret[1]>>},
                    !.ret = r.ret]

\* Move.create(state=state, destination=destination, goods=g): the goods
\* are past once the move is done, and a record of the same goods is at
\* the destination, future until then
Move_create(w, g, destination, state) ==
  IF w.goods[g].state \notin
       (IF state = "done" THEN {"present"} ELSE {"present", "future"})
  THEN [w EXCEPT !.err = "OperationNotExecutable"]
  ELSE LET move == NextReason(w.goods)
       IN [w EXCEPT
             !.goods = Append(
                IF state = "done" THEN [@ EXCEPT ![g].state = "past"] ELSE @,
                [w.goods[g] EXCEPT
                   !.location = destination, !.reason = move,
                   !.state = IF state = "done" THEN "present" ELSE "future"]),
             !.ops = With(@, move, [type |-> "move", state |-> state,
                                    goods |-> <<g>>]),
             !.edges = @ \cup {<<w.goods[g].reason, move>>},
             !.ret = <<move>>]

\* Aggregate.create(state='planned', goods=inputs), which follows the
\* given operations: a future record has the quantities together
Aggregate_plan(w, inputs, follows) ==
  LET aggregate == NextReason(w.goods)
      first == w.goods[inputs[1]]
  IN IF \E i \in SeqToSet(inputs) :
          \/ w.goods[i].state \notin {"present", "future"}
          \/ w.goods[i].type # first.type
          \/ w.goods[i].location # first.location
          \/ w.goods[i].properties # first.properties
     THEN [w EXCEPT !.err = "OperationNotExecutable"]
     ELSE [w EXCEPT
             !.goods = Append(@, [first EXCEPT
                        !.quantity = SumQuantity(w.goods, SeqToSet(inputs)),
                        !.state = "future", !.reason = aggregate]),
             !.ops = With(@, aggregate, [type |-> "aggregate",
                                         state |-> "planned", goods |-> inputs]),
             !.edges = @ \cup {<<p, aggregate>> : p \in follows},
             !.ret = <<aggregate>>]

\* is_reversible of the subtypes: a Move is, a Split and an Aggregate are
\* if the type of their goods says so, and the others keep the default of
\* the base class
World_is_reversible(w, x) ==
  CASE w.ops[x].type = "move" -> TRUE
    [] w.ops[x].type = "split" ->
         is_split_reversible(w.types[w.goods[w.ops[x].goods[1]].type])
    [] w.ops[x].type = "aggregate" ->
         is_aggregate_reversible(w.types[w.goods[w.ops[x].goods[1]].type])
    [] OTHER -> FALSE

\* what stands for the outcome i of an operation once the reversals of its
\* followers are planned: the outcome of the reversal of the follower that
\* took i, or i itself if no follower took it
BroughtBack(w, followers, reverts, i) ==
  IF \E k \in 1..Len(followers) : i \in SeqToSet(w.ops[followers[k]].goods)
  THEN LET k == CHOOSE k \in 1..Len(followers) :
                  i \in SeqToSet(w.ops[followers[k]].goods)
       IN CHOOSE o \in DOMAIN w.goods : w.goods[o].reason = reverts[k]
  ELSE i

\* plan_revert_single of Move and of Split (the scenario reverts no
\* Aggregate): a planned Move of the outcome, or of what stands for it, back
\* to where the goods were; a planned Aggregate of the outcomes, or of what
\* stands for them. Each follows the reversals of the followers, or the
\* operation itself if there is none.
World_plan_revert_single(w, x, followers, reverts) ==
  LET outcomes == SortedSeq(OutcomesOf(w, x))
      inputs == [k \in 1..Len(outcomes) |->
                   BroughtBack(w, followers, reverts, outcomes[k])]
  IN CASE w.ops[x].type = "move" ->
            Move_create(w, inputs[1], w.goods[w.ops[x].goods[1]].location,
                        "planned")
       [] w.ops[x].type = "split" ->
            Aggregate_plan(w, inputs,
                           IF reverts = <<>> THEN {x} ELSE SeqToSet(reverts))

\* op.plan_revert() on the rows of the scenario, as Operation.plan_revert
\* does: the state, is_reversible, the followers one by one, each by its own
\* plan_revert(), then plan_revert_single. ret is <<reversal, leaves>>.
RECURSIVE World_plan_revert(_, _)
RECURSIVE World_plan_revert_followers(_, _, _, _)

World_plan_revert(w, x) ==
  IF w.ops[x].state # "done"
  THEN [w EXCEPT !.err = "OperationError", !.ret = <<x>>]
  ELSE IF ~World_is_reversible(w, x)
  THEN [w EXCEPT !.err = "OperationIrreversibleError", !.ret = <<x>>]
  ELSE
    LET followers == SortedSeq(FollowersOf(w, x))
        w1 == World_plan_revert_followers(w, followers, <<>>, <<>>)
    IN IF w1.err # "none" THEN w1
       ELSE
         LET followers_reverts == w1.ret[1]
             exec_leafs == w1.ret[2]
             w2 == World_plan_revert_single(w1, x, followers, followers_reverts)
         IN IF w2.err # "none" THEN w2
            ELSE [w2 EXCEPT !.ret = <<w2.ret[1],
                    IF exec_leafs = <<>> THEN <<w2.ret[1]>> ELSE exec_leafs>>]

\* the loop of plan_revert: ret is <<followers_reverts, exec_leafs>>
World_plan_revert_followers(w, followers, followers_reverts, exec_leafs) ==
  IF w.err # "none" THEN w
  ELSE IF followers = <<>>
  THEN [w EXCEPT !.ret = <<followers_reverts, exec_leafs>>]
  ELSE LET w1 == World_plan_revert(w, Head(followers))
       IN IF w1.err # "none" THEN w1
          ELSE World_plan_revert_followers(
                 w1, Tail(followers), Append(followers_reverts, w1.ret[1]),
                 exec_leafs \o w1.ret[2])

\* (an execution that leaves the inputs as they are)
execute_reversal_keep(w, x) ==
  IF w.ops[x].state = "done" THEN w
  ELSE IF \E i \in SeqToSet(w.ops[x].goods) : w.goods[i].state # "present"
  THEN [w EXCEPT !.err = "OperationNotExecutable"]
  ELSE [w EXCEPT
          !.goods = [i \in DOMAIN @ |->
             IF @[i].reason = x THEN [@[i] EXCEPT !.state = "present"]
             ELSE @[i]],
          !.ops[x].state = "done"]

\* op.execute() of a planned Move or Aggregate: the goods it takes are
\* present and become past, and its outcome becomes present
execute_reversal(w, x) ==
  IF w.ops[x].state = "done" THEN w
  ELSE IF \E i \in SeqToSet(w.ops[x].goods) : w.goods[i].state # "present"
  THEN [w EXCEPT !.err = "OperationNotExecutable"]
  ELSE [w EXCEPT
          !.goods = [i \in DOMAIN @ |->
             IF i \in SeqToSet(w.ops[x].goods) THEN [@[i] EXCEPT !.state = "past"]
             ELSE IF @[i].reason = x THEN [@[i] EXCEPT !.state = "present"]
             ELSE @[i]],
          !.ops[x].state = "done"]

\* a call of the scenario, and the record of it
Act(call, self, args, w) ==
  /\ query.call = "idle"
  /\ query' = [call |-> call, self |-> self, args |-> args, err |-> w.err,
               ret |-> w.ret, pre |-> goods, ops |-> ops]
  /\ goods' = w.goods
  /\ ops' = w.ops
  /\ edges' = w.edges
  /\ UNCHANGED <<avatars, nextId, clock, calls, last, locations, catalogue>>

\* goods_type.behaviours = ...
SetBehavioursR ==
  /\ query.call = "idle"
  /\ \E t \in GoodsTypes, behaviours \in Behaviours :
       goods_types' = [goods_types EXCEPT ![t] = behaviours]
  /\ UNCHANGED <<operations, locations, goods, properties, query>>

\* the split of the goods that arrived
SplitR ==
  /\ DOMAIN ops = {0}
  /\ \E quantity_ \in 1..MaxSplitQuantity :
       Act("split", 1, [quantity |-> quantity_],
           Split_create(World, 1, quantity_))

\* the goods no operation has taken yet
Untaken(w) ==
  {g \in DOMAIN w.goods :
     \A x \in DOMAIN w.ops : g \notin SeqToSet(w.ops[x].goods)}

\* a move, done or planned, of an outcome of the split or of a move
MoveR ==
  /\ 1 \in DOMAIN ops
  /\ \A x \in DOMAIN ops : ops[x].type # "aggregate"
  /\ Cardinality({x \in DOMAIN ops : ops[x].type = "move"}) < MaxMoves
  /\ \E g \in Untaken(World), destination \in DOMAIN locations,
        state \in {"planned", "done"} :
       Act("move", g, [destination |-> destination, state |-> state],
           Move_create(World, g, destination, state))

\* op.plan_revert() of any operation, while no Aggregate is planned
PlanRevertR ==
  /\ \A x \in DOMAIN ops : ops[x].type # "aggregate"
  /\ Cardinality(DOMAIN ops) <= MaxMoves + 2
  /\ \E x \in DOMAIN ops :
       Act("plan_revert", x, <<>>, World_plan_revert(World, x))

ExecuteR ==
  \E x \in DOMAIN ops :
    /\ ops[x].state = "planned"
    /\ Act("execute", x, <<>>, execute_reversal(World, x))

\* The goods of a planned arrival, of any quantity, type and properties, in
\* either location, made present as the tests do
InitRevert ==
  /\ \E type \in GoodsTypes, location \in 1..2, quantity_ \in 1..MaxSplitQuantity,
        ref \in PropertiesRefs :
       /\ goods = <<[type |-> type, location |-> location, state |-> "present",
                     dt_from |-> 0, dt_until |-> None,
                     quantity |-> quantity_, reason |-> 0,
                     properties |-> ref]>>
       /\ ops = (0 :> [type |-> "arrival", state |-> "planned", goods |-> <<>>,
                       goods_type |-> type, location |-> location,
                       quantity |-> quantity_, properties |-> ref])
  /\ edges = {}
  /\ avatars = <<>>
  /\ nextId = 1
  /\ clock = 0
  /\ calls = 0
  /\ last = Idle
  /\ locations = <<[parent |-> None, tag |-> None],
                   [parent |-> Some(1), tag |-> None]>>
  /\ goods_types = [t \in GoodsTypes |-> NoBehaviours]
  /\ properties = <<>>
  /\ query = NoQuery

NextRevert == SetBehavioursR \/ SplitR \/ MoveR \/ PlanRevertR \/ ExecuteR \/ Answer

SpecRevert == InitRevert /\ [][NextRevert]_vars

\* ------------------------------------------- the properties of goods
\* the names of a column of Goods.Properties and of a key of its flexible
\* mapping, the names that are no property, and the values given in tests
PropertyKeys == {"batch", "foo"}
ReservedKeys == {"id", "flexible"}
PropertyValues == {"12345", "6789"}

\* a record of properties with nothing set
NoProperties == [k \in PropertyKeys |-> None]

\* goods.get_property(k, default=default): what the properties of the
\* goods have under k, the default if the goods have no properties or the
\* properties have nothing under k
get_property(gs, ps, g, k, default) ==
  IF IsNone(gs[g].properties) THEN default
  ELSE LET v == ps[Val(gs[g].properties)][k]
       IN IF IsNone(v) THEN default ELSE v

\* the goods other than g that have the same record of properties
Sharing(gs, g) ==
  {o \in DOMAIN gs \ {g} : gs[o].properties = gs[g].properties}

\* (the value set in the record as it is, shared or not)
set_property_shared(gs, ps, g, k, v) ==
  IF k \in ReservedKeys
  THEN [goods |-> gs, properties |-> ps, err |-> "ValueError"]
  ELSE IF IsNone(gs[g].properties)
  THEN [goods |-> [gs EXCEPT ![g].properties = Some(Len(ps) + 1)],
        properties |-> Append(ps, [NoProperties EXCEPT ![k] = Some(v)]),
        err |-> "none"]
  ELSE [goods |-> gs,
        properties |-> [ps EXCEPT ![Val(gs[g].properties)][k] = Some(v)],
        err |-> "none"]

\* goods.set_property(k, v): a reserved name is refused; goods without
\* properties get a new record; properties that other goods have too are
\* duplicated first, and the goods get the duplicate
set_property(gs, ps, g, k, v) ==
  IF k \in ReservedKeys
  THEN [goods |-> gs, properties |-> ps, err |-> "ValueError"]
  ELSE IF IsNone(gs[g].properties)
  THEN [goods |-> [gs EXCEPT ![g].properties = Some(Len(ps) + 1)],
        properties |-> Append(ps, [NoProperties EXCEPT ![k] = Some(v)]),
        err |-> "none"]
  ELSE IF Sharing(gs, g) # {}
  THEN [goods |-> [gs EXCEPT ![g].properties = Some(Len(ps) + 1)],
        properties |-> Append(ps, [ps[Val(gs[g].properties)]
                                     EXCEPT ![k] = Some(v)]),
        err |-> "none"]
  ELSE [goods |-> gs,
        properties |-> [ps EXCEPT ![Val(gs[g].properties)][k] = Some(v)],
        err |-> "none"]

\* Goods.insert(..., properties=...): without properties, or with those of
\* goods that are there
InsertGoodsP ==
  /\ query.call = "idle"
  /\ Len(goods) < MaxGoods
  /\ \E type \in GoodsTypes,
        ref \in {None} \cup {goods[o].properties : o \in DOMAIN goods} :
       goods' = Append(goods,
                  [type |-> type, location |-> 1, state |-> "present",
                   dt_from |-> 0, dt_until |-> None, quantity |-> 1,
                   reason |-> 0, properties |-> ref])
  /\ UNCHANGED <<operations, locations, catalogue, query>>

SetPropertyCall ==
  /\ query.call = "idle"
  /\ \E g \in DOMAIN goods, k \in PropertyKeys \cup ReservedKeys,
        v \in PropertyValues :
       LET r == set_property(goods, properties, g, k, v)
       IN /\ query' = [call |-> "set_property", self |-> g,
                       args |-> [k |-> k, v |-> v], err |-> r.err, ret |-> <<>>,
                       pre |-> [goods |-> goods, properties |-> properties]]
          /\ goods' = r.goods
          /\ properties' = r.properties
  /\ UNCHANGED <<operations, locations, goods_types>>

\* Goods inserted in one location, with the properties of other goods or
\* without, and properties set on them
InitProperties ==
  /\ NoOperations
  /\ locations = <<[parent |-> None, tag |-> None]>>
  /\ goods = <<>>
  /\ goods_types = [t \in GoodsTypes |-> NoBehaviours]
  /\ properties = <<>>
  /\ query = NoQuery

NextProperties == InsertGoodsP \/ SetPropertyCall \/ Answer

SpecProperties == InitProperties /\ [][NextProperties]_vars

\* ------------------------------------------------------------ properties
\* The properties read the record of the latest call: the rows before it
\* (last.pre), the rows now, and what the call raised, returned and did.

\* the call left every row as it was
Same ==
  /\ ops = last.pre.ops
  /\ edges = last.pre.edges
  /\ avatars = last.pre.avatars
  /\ nextId = last.pre.nextId

\* the transitive followers of x in the graph of s, and x with them
RECURSIVE Closure(_, _)
Closure(s, S) ==
  LET N == S \cup UNION {Followers(s, y) : y \in S}
  IN IF N = S THEN S ELSE Closure(s, N)
TransFollowers(s, x) == Closure(s, Followers(s, x))
SubDag(s, x) == {x} \cup TransFollowers(s, x)

\* the steps of the latest call with the given name, as indexes of its log
StepsNamed(name) == {i \in 1..Len(last.log) : last.log[i][1] = name}
StepsOn(name, x) == {i \in StepsNamed(name) : last.log[i][2] = x}

\* the operations other than those of D are as they were, with their edges
SurvivorsUntouched(D) ==
  /\ DOMAIN ops = DOMAIN last.pre.ops \ D
  /\ \A y \in DOMAIN ops : ops[y] = last.pre.ops[y]
  /\ edges = {e \in last.pre.edges : e[1] \notin D /\ e[2] \notin D}

\* nothing is left of the operations of D
NothingLeftOf(D) ==
  /\ DOMAIN ops \cap D = {}
  /\ \A e \in edges : e[1] \notin D /\ e[2] \notin D
  /\ \A a \in DOMAIN avatars : avatars[a].reason \notin D

\* C1: after cancel() succeeds on X, exactly X and its transitive followers
\* are gone, no edge and no avatar refers to them, and every other operation
\* is there as before, with its edges to the other survivors
C1_CancelRemovesSubDag ==
  (last.call = "cancel" /\ last.err = "none") =>
    LET D == SubDag(last.pre, last.self)
    IN NothingLeftOf(D) /\ SurvivorsUntouched(D)

\* a cancel() that succeeded on an operation with a predecessor and at least
\* two transitive followers
C1_Witness ==
  /\ last.call = "cancel" /\ last.err = "none"
  /\ Cardinality(TransFollowers(last.pre, last.self)) >= 2
  /\ Follows(last.pre, last.self) # {}

\* C2: execute(dt) on an operation that is done changes nothing and calls no
\* hook, whatever dt
C2_ExecuteDoneIsNoOp ==
  (last.call = "execute" /\ last.pre.ops[last.self].state = "done") =>
    /\ Same
    /\ last.err = "none"
    /\ last.log = <<>>

\* an execute(dt2) on a done operation with dt2 other than its dt_execution
C2_Witness ==
  /\ last.call = "execute"
  /\ last.pre.ops[last.self].state = "done"
  /\ ~IsNone(last.args.dt_execution)
  /\ Val(last.args.dt_execution) # last.pre.ops[last.self].dt_execution

\* C3: create() with follows given, an empty list included, raises
\* OperationCreateArgFollows before any hook, and leaves every row as it was
C3_CreateForbidsFollows ==
  (last.call = "create" /\ ~IsNone(last.args.follows)) =>
    /\ last.err = "OperationCreateArgFollows"
    /\ last.log = <<>>
    /\ Same

\* a create() that was given an empty list as follows, and valid inputs
C3_Witness ==
  /\ last.call = "create"
  /\ last.args.follows = Some(<<>>)
  /\ ~IsNone(last.args.dt_execution)
  /\ check_create_conditions(last.pre, last.args.state,
                             Val(last.args.dt_execution), last.args.type,
                             last.args.inputs)

\* the arguments of the latest create() pass check_create_conditions
CreateConditionsMet(dt) ==
  check_create_conditions(last.pre, last.args.state, dt, last.args.type,
                          last.args.inputs)

\* C4: create(state='planned') without dt_execution raises OperationError
\* with nothing persisted and no hook called; create(state='done') without
\* dt_execution goes on with the current time, which the new operation has;
\* a dt_execution that is given is the one of the new operation
C4_CreateDtExecution ==
  (last.call = "create" /\ IsNone(last.args.follows)) =>
    /\ (last.args.state = "planned" /\ IsNone(last.args.dt_execution)) =>
         (last.err = "OperationError" /\ last.log = <<>> /\ Same)
    /\ (last.args.state = "done" /\ IsNone(last.args.dt_execution)) =>
         /\ last.err # "OperationError"
         /\ CreateConditionsMet(last.now) =>
              /\ last.err = "none"
              /\ ops[last.ret[1]].dt_execution = last.now
              /\ ops[last.ret[1]].state = "done"
    /\ (~IsNone(last.args.dt_execution)
          /\ CreateConditionsMet(Val(last.args.dt_execution))) =>
         /\ last.err = "none"
         /\ ops[last.ret[1]].dt_execution = Val(last.args.dt_execution)
         /\ ops[last.ret[1]].state = last.args.state

\* a create(state='done') without dt_execution that succeeded after the
\* clock moved
C4_Witness ==
  /\ last.call = "create" /\ last.err = "none"
  /\ last.args.state = "done" /\ IsNone(last.args.dt_execution)
  /\ last.now > 0

\* C5: create() in any state other than planned, without dt_execution,
\* goes on with the current time
C5_DefaultUnlessPlanned ==
  (/\ last.call = "create" /\ IsNone(last.args.follows)
   /\ last.args.state # "planned" /\ IsNone(last.args.dt_execution)
   /\ CreateConditionsMet(last.now)) =>
    /\ last.err = "none"
    /\ ops[last.ret[1]].dt_execution = last.now

\* C6: cancel() on an operation that is not planned, and obliviate() on one
\* that is not done, raise OperationError before any follower is visited,
\* and leave every row as it was
C6_StateGuards ==
  (\/ last.call = "cancel" /\ last.pre.ops[last.self].state # "planned"
   \/ last.call = "obliviate" /\ last.pre.ops[last.self].state # "done") =>
    /\ last.err = "OperationError"
    /\ last.ret = <<last.self>>
    /\ last.log = <<>>
    /\ Same

\* a cancel() on a started operation that has a follower
C6_Witness ==
  /\ last.call = "cancel"
  /\ last.pre.ops[last.self].state = "started"
  /\ Followers(last.pre, last.self) # {}
  /\ last.err = "OperationError"

\* C7: after obliviate() succeeds on X, X and its transitive followers are
\* gone, obliviate_single was applied to each, no edge refers to them and the
\* others are untouched; a transitive follower that is not done makes the
\* call raise, and is still there as it was, with its outcomes
C7_ObliviateSubDag ==
  (last.call = "obliviate") =>
    LET D == SubDag(last.pre, last.self)
        notDone == {d \in D : last.pre.ops[d].state # "done"}
    IN /\ last.err = "none" =>
            /\ NothingLeftOf(D)
            /\ SurvivorsUntouched(D)
            /\ \A d \in D : StepsOn("obliviate_single", d) # {}
       /\ notDone # {} =>
            /\ last.err # "none"
            /\ \A d \in notDone :
                 /\ d \in DOMAIN ops /\ ops[d] = last.pre.ops[d]
                 /\ Outcomes(Store, d) = Outcomes(last.pre, d)

\* an obliviate() that succeeded on an operation with a predecessor and at
\* least two transitive followers
C7_Witness ==
  /\ last.call = "obliviate" /\ last.err = "none"
  /\ Cardinality(TransFollowers(last.pre, last.self)) >= 2
  /\ Follows(last.pre, last.self) # {}

\* an obliviate() on a done operation with a planned transitive follower
C7_WitnessPlannedFollower ==
  /\ last.call = "obliviate"
  /\ last.pre.ops[last.self].state = "done"
  /\ \E d \in TransFollowers(last.pre, last.self) :
       last.pre.ops[d].state = "planned"

\* C8: plan_revert() on an operation that is not done raises OperationError,
\* reversible or not; on a done one that is not reversible it raises
\* OperationIrreversibleError with that operation; only the types that
\* override is_reversible() are reversible; in both cases no follower is
\* visited and no row changes
C8_PlanRevertGuards ==
  /\ \A x \in DOMAIN ops :
       ops[x].type \notin ReversibleTypes => ~is_reversible(Store, x)
  /\ (last.call = "plan_revert") =>
       LET o == last.pre.ops[last.self]
       IN /\ o.state # "done" =>
               (last.err = "OperationError" /\ last.log = <<>> /\ Same)
          /\ (o.state = "done" /\ ~is_reversible(last.pre, last.self)) =>
               /\ last.err = "OperationIrreversibleError"
               /\ last.ret = <<last.self>>
               /\ last.log = <<>>
               /\ Same

\* a plan_revert() on a done arrival, which has a follower
C8_Witness ==
  /\ last.call = "plan_revert"
  /\ last.pre.ops[last.self].state = "done"
  /\ last.pre.ops[last.self].type = "arrival"
  /\ Followers(last.pre, last.self) # {}
  /\ last.err = "OperationIrreversibleError"

\* a plan_revert() on a planned arrival: the state comes first
C8_WitnessState ==
  /\ last.call = "plan_revert"
  /\ last.pre.ops[last.self].state = "planned"
  /\ last.pre.ops[last.self].type = "arrival"
  /\ last.err = "OperationError"

\* the reversal that the latest plan_revert() planned for y, and the follows
\* that plan_revert_single was given for it
RevOf(y) == last.log[CHOOSE i \in StepsOn("reversal", y) : TRUE][3]
RevFollowsOf(y) == last.log[CHOOSE i \in StepsOn("plan_revert_single", y) : TRUE][4]
\* the reversals of the followers of y, in the order of the followers
FollowersReverts(y) ==
  LET fs == SortedSeq(Followers(last.pre, y))
  IN [i \in 1..Len(fs) |-> RevOf(fs[i])]

\* C9: after plan_revert() succeeds on X, plan_revert_single was called once
\* for each operation Y of the sub-DAG of X, with follows the list of the
\* reversals of the followers of Y, one for each, and the reversal of Y
\* follows each of them
C9_ReversalFollowsFollowersReversals ==
  (last.call = "plan_revert" /\ last.err = "none") =>
    \A y \in SubDag(last.pre, last.self) :
      /\ Cardinality(StepsOn("plan_revert_single", y)) = 1
      /\ Cardinality(StepsOn("reversal", y)) = 1
      /\ RevFollowsOf(y) = FollowersReverts(y)
      /\ Len(RevFollowsOf(y)) = Cardinality(Followers(last.pre, y))
      /\ \A f \in Followers(last.pre, y) : <<RevOf(f), RevOf(y)>> \in edges

\* a plan_revert() that succeeded on an operation with a follower that has a
\* follower
C9_Witness ==
  /\ last.call = "plan_revert" /\ last.err = "none"
  /\ \E f \in Followers(last.pre, last.self) : Followers(last.pre, f) # {}

\* the leaves that the reversal of y starts with
RECURSIVE LeavesOf(_)
RECURSIVE LeavesOfAll(_)
LeavesOf(y) ==
  IF Followers(last.pre, y) = {} THEN <<RevOf(y)>>
  ELSE LeavesOfAll(SortedSeq(Followers(last.pre, y)))
LeavesOfAll(fs) ==
  IF fs = <<>> THEN <<>> ELSE LeavesOf(Head(fs)) \o LeavesOfAll(Tail(fs))

\* C10: plan_revert() on X returns the reversal R of X and the leaves: R
\* alone if X has no followers, else the leaves of the followers, one after
\* the other, without R; each leaf is the reversal of an operation of the
\* sub-DAG that has no followers, there is at least one, and R is or
\* transitively follows each
C10_ReturnedLeaves ==
  (last.call = "plan_revert" /\ last.err = "none") =>
    LET x == last.self
        R == last.ret[1]
        leaves == last.ret[2]
    IN /\ R = RevOf(x)
       /\ Followers(last.pre, x) = {} => leaves = <<R>>
       /\ Followers(last.pre, x) # {} =>
            /\ leaves = LeavesOfAll(SortedSeq(Followers(last.pre, x)))
            /\ R \notin SeqToSet(leaves)
       /\ leaves # <<>>
       /\ \A l \in SeqToSet(leaves) :
            /\ \E y \in SubDag(last.pre, x) :
                 Followers(last.pre, y) = {} /\ l = RevOf(y)
            /\ l = R \/ R \in TransFollowers(Store, l)

\* a plan_revert() that succeeded on an operation with two followers
C10_Witness ==
  /\ last.call = "plan_revert" /\ last.err = "none"
  /\ Cardinality(Followers(last.pre, last.self)) >= 2
  /\ Len(last.ret[2]) >= 2

\* the operations that the latest call created
Created == DOMAIN ops \ DOMAIN last.pre.ops

\* the date and time that the latest call was given, the current one if none
GivenOrNow ==
  IF IsNone(last.args.dt_execution) THEN last.now
  ELSE Val(last.args.dt_execution)

\* C11: the reversals that one plan_revert(dt_execution=t) creates, those of
\* the transitive followers included, are all planned at t, the current date
\* and time if no t is given
C11_ReversalsAtOneTime ==
  (last.call = "plan_revert" /\ last.err = "none") =>
    \A r \in Created : ops[r].dt_execution = GivenOrNow

\* the graph of the store has no cycle
Acyclic(s) == \A x \in Ids(s) : x \notin TransFollowers(s, x)

\* C12: in every reachable state no operation is, directly or transitively,
\* its own predecessor, the planned reversals included, and every edge joins
\* two operations, the earlier created one first
C12_Acyclic ==
  /\ Acyclic(Store)
  /\ \A e \in edges : e[1] \in Ids(Store) /\ e[2] \in Ids(Store) => e[1] < e[2]

\* a plan_revert() has added reversals to a graph with a path of two edges
C12_Witness ==
  /\ last.call = "plan_revert" /\ last.err = "none"
  /\ Cardinality(Created) >= 2
  /\ \E x \in Ids(Store) : \E f \in Followers(Store, x) :
       Followers(Store, f) # {} /\ Follows(Store, x) # {}

\* C13: an execute() that raises on a planned operation leaves it as it was:
\* its state, dt_execution and dt_start, and the rest of the store
C13_FailedExecuteChangesNothing ==
  (/\ last.call = "execute" /\ last.err # "none"
   /\ last.pre.ops[last.self].state = "planned") =>
    /\ ops[last.self] = last.pre.ops[last.self]
    /\ Same

\* the single-node step of a recursive walk, and the event that ends it
SingleStep(call) == CASE call = "cancel" -> "cancel_single"
                      [] call = "obliviate" -> "obliviate_single"
                      [] OTHER -> "plan_revert_single"
EndOfStep(call) == IF call = "plan_revert" THEN "reversal" ELSE "delete"
\* the walk went once through each operation it met
VisitedOnce == StepsNamed("stale") = {}

\* C14: within one cancel(), obliviate() or plan_revert(), a single-node step
\* on an operation P starts only after the step on each follower F of P is
\* complete (F deleted, or its reversal planned); when each operation is met
\* once there is one step for each and no step on F after the step on P; when
\* the call succeeds the step on X itself is the last one
C14_PostOrder ==
  (last.call \in {"cancel", "obliviate", "plan_revert"}) =>
    LET single == SingleStep(last.call)
        end == EndOfStep(last.call)
    IN /\ \A P \in DOMAIN last.pre.ops : StepsOn(single, P) # {} =>
            \A F \in Followers(last.pre, P) :
              /\ StepsOn(single, F) # {} /\ StepsOn(end, F) # {}
              /\ Min(StepsOn(single, F)) < Min(StepsOn(end, F))
              /\ Min(StepsOn(end, F)) < Min(StepsOn(single, P))
              /\ VisitedOnce =>
                   /\ Cardinality(StepsOn(single, F)) = 1
                   /\ Cardinality(StepsOn(end, F)) = 1
                   /\ Max(StepsOn(end, F)) < Min(StepsOn(single, P))
       /\ last.err = "none" =>
            /\ Max(StepsNamed(single)) \in StepsOn(single, last.self)
            /\ Len(last.log) \in StepsOn(end, last.self)

\* a cancel() that succeeded on an operation with a follower that has a
\* follower
C14_Witness ==
  /\ last.call = "cancel" /\ last.err = "none"
  /\ \E f \in Followers(last.pre, last.self) : Followers(last.pre, f) # {}
  /\ VisitedOnce

\* an obliviate() that succeeded on an operation with two followers
C14_WitnessObliviate ==
  /\ last.call = "obliviate" /\ last.err = "none"
  /\ Cardinality(Followers(last.pre, last.self)) >= 2

\* C15: after execute(dt) succeeds on an operation that is not done, it is
\* done, its dt_execution is dt, the current date and time if no dt is given,
\* and its dt_start is the one it had, dt if it had none;
\* check_execute_conditions, then execute_planned, were called, both with
\* dt_execution already at dt, and the operation was not yet done then
C15_ExecuteSetsDates ==
  (/\ last.call = "execute" /\ last.err = "none"
   /\ last.pre.ops[last.self].state # "done") =>
    LET o == ops[last.self]
        p == last.pre.ops[last.self]
    IN /\ o.state = "done"
       /\ o.dt_execution = GivenOrNow
       /\ o.dt_start = IF IsNone(p.dt_start) THEN Some(GivenOrNow) ELSE p.dt_start
       /\ last.log = <<<<"check_execute_conditions", last.self, GivenOrNow>>,
                       <<"execute_planned", last.self, p.state>>>>

\* an execute(dt) that succeeded on an operation that had a dt_start other
\* than dt, left by an earlier execute() that raised
C15_Witness ==
  /\ last.call = "execute" /\ last.err = "none"
  /\ ~IsNone(last.pre.ops[last.self].dt_start)
  /\ last.pre.ops[last.self].dt_start # Some(GivenOrNow)
  /\ last.pre.ops[last.self].state # "done"

\* an execute() that succeeded on a started operation
C15_WitnessStarted ==
  /\ last.call = "execute" /\ last.err = "none"
  /\ last.pre.ops[last.self].state = "started"

\* the goods of the type asked for, at the location asked, in one of the states
AskedGoods(states) ==
  {i \in DOMAIN goods : /\ goods[i].type = query.args.goods_type
                        /\ goods[i].location = query.self
                        /\ goods[i].state \in states}

\* C16: quantity(goods_type), without additional_states nor at_datetime, is
\* the sum of the quantities of the avatars that are present, of that type,
\* at that very location; 0 if there is none
C16_QuantityIsSumOfPresent ==
  (/\ query.call = "quantity"
   /\ IsNone(query.args.additional_states)
   /\ IsNone(query.args.at_datetime)) =>
    /\ query.err = "none"
    /\ query.ret = <<SumQuantity(goods, AskedGoods({"present"}))>>

\* the date and time t is in the range of the avatar: from dt_from on, and
\* before dt_until if there is one; for DATE_TIME_INFINITY, there is no dt_until
InRange(g, t) ==
  IF t = DATE_TIME_INFINITY THEN IsNone(g.dt_until)
  ELSE g.dt_from <= t /\ (IsNone(g.dt_until) \/ t < Val(g.dt_until))

\* C17: quantity() with additional_states given, be it empty, and no
\* at_datetime raises ValueError and returns nothing; with both given it
\* counts the avatars whose state is present or one of additional_states,
\* and no other
C17_AdditionalStatesNeedDate ==
  (query.call = "quantity" /\ ~IsNone(query.args.additional_states)) =>
    LET states == {"present"} \cup Val(query.args.additional_states)
    IN IF IsNone(query.args.at_datetime)
       THEN query.err = "ValueError" /\ query.ret = <<>>
       ELSE /\ query.err = "none"
            /\ query.ret[1] <= Cardinality(AskedGoods(states))
            /\ query.ret[1] =
                 Cardinality({i \in AskedGoods(states) :
                                InRange(goods[i], Val(query.args.at_datetime))})
            /\ \A st \in AVATAR_STATES \ states :
                 \A i \in AskedGoods({st}) : query.ret[1] < Len(goods)

\* a quantity() with an empty additional_states and no at_datetime, on a
\* location with goods present
C17_Witness ==
  /\ query.call = "quantity"
  /\ query.args.additional_states = Some({})
  /\ IsNone(query.args.at_datetime)
  /\ AskedGoods({"present"}) # {}
  /\ query.err = "ValueError"

\* a quantity() with additional_states ['past'] at a date and time, that
\* counts an avatar which is past and leaves out one which is future
C17_WitnessStates ==
  /\ query.call = "quantity"
  /\ query.args.additional_states = Some({"past"})
  /\ ~IsNone(query.args.at_datetime)
  /\ query.ret = <<1>>
  /\ AskedGoods({"past"}) # {} /\ AskedGoods({"future"}) # {}
  /\ \A i \in DOMAIN goods : InRange(goods[i], Val(query.args.at_datetime))

\* C18: at a date and time t, quantity() takes an avatar into account iff
\* dt_from <= t and dt_until is None or later than t: one that starts at t is
\* in, one that ends at t is out; at DATE_TIME_INFINITY, iff dt_until is None
C18_HalfOpenRange ==
  (/\ query.call = "quantity" /\ query.err = "none"
   /\ ~IsNone(query.args.at_datetime)) =>
    LET t == Val(query.args.at_datetime)
        asked == AskedGoods(quantity_states(query.args.additional_states))
    IN /\ query.ret[1] = Cardinality({i \in asked : InRange(goods[i], t)})
       /\ \A i \in asked :
            /\ (t # DATE_TIME_INFINITY /\ goods[i].dt_until = Some(t)) =>
                 query.ret[1] < Cardinality(asked)
            /\ (\A j \in asked : goods[j].dt_from = t /\ IsNone(goods[j].dt_until)) =>
                 query.ret[1] = Cardinality(asked)

\* a quantity() at t with an avatar that ends at t and one that starts at t
C18_Witness ==
  /\ query.call = "quantity" /\ query.err = "none"
  /\ ~IsNone(query.args.at_datetime)
  /\ query.ret = <<1>>
  /\ \E i, j \in AskedGoods({"present"}) :
       /\ goods[i].dt_until = query.args.at_datetime
       /\ goods[j].dt_from = Val(query.args.at_datetime)

\* a quantity() at DATE_TIME_INFINITY with an avatar without dt_until, which
\* starts at the latest date, and one with a dt_until
C18_WitnessInfinity ==
  /\ query.call = "quantity" /\ query.err = "none"
  /\ query.args.at_datetime = Some(DATE_TIME_INFINITY)
  /\ query.ret = <<1>>
  /\ \E i, j \in AskedGoods({"present"}) :
       /\ IsNone(goods[i].dt_until) /\ goods[i].dt_from = MaxDate
       /\ ~IsNone(goods[j].dt_until)

\* the locations under l, l included, and the tag that l has or inherits
\* from the closest location above it that has one
SubTree(l) ==
  LET RECURSIVE Under(_)
      Under(S) ==
        LET N == S \cup {c \in DOMAIN locations :
                           \E p \in S : locations[c].parent = Some(p)}
        IN IF N = S THEN S ELSE Under(N)
  IN Under({l})
RECURSIVE EffectiveTag(_)
EffectiveTag(l) ==
  IF ~IsNone(locations[l].tag) THEN locations[l].tag
  ELSE IF IsNone(locations[l].parent) THEN None
  ELSE EffectiveTag(Val(locations[l].parent))

\* C19: tag_cte(top) has one row for each location under top, top included
\* (for each location, if top is None), and none for another; the tag of the
\* row is the location's own if it has one, else that of the closest location
\* above it that has one, be it above top, else none
C19_TagOfClosestAncestor ==
  (query.call = "tag_cte") =>
    LET rows == query.ret
        under == IF IsNone(query.args.top) THEN DOMAIN locations
                 ELSE SubTree(Val(query.args.top))
    IN /\ {rows[i][1] : i \in 1..Len(rows)} = under
       /\ Len(rows) = Cardinality(under)
       /\ \A i \in 1..Len(rows) : rows[i][2] = EffectiveTag(rows[i][1])

\* the goods whose reason is the operation that the latest call created
Outcome == {i \in DOMAIN goods : goods[i].reason = query.ret[1]}

\* C20: a Split.create(state='done', goods, quantity=k) of present goods of
\* quantity n, 0 < k < n, leaves two records whose reason is the split: the
\* original, now of quantity n - k, and one of quantity k; both of the type
\* and at the location of the original, present, of a quantity > 0, n in
\* all, and every other record is as it was. The one outcome of an Aggregate
\* has the quantities of its inputs together.
C20_QuantityConservation ==
  /\ (query.call = "split") =>
       LET g == query.self
           n == query.pre[g].quantity
           k == query.args.quantity
       IN (0 < k /\ k < n /\ query.pre[g].state = "present") =>
            /\ query.err = "none"
            /\ Cardinality(Outcome) = 2
            /\ g \in Outcome
            /\ goods[g].quantity = n - k
            /\ \E new \in Outcome \ {g} :
                 /\ new \notin DOMAIN query.pre
                 /\ goods[new].quantity = k
            /\ SumQuantity(goods, Outcome) = n
            /\ \A i \in Outcome :
                 /\ goods[i].quantity > 0
                 /\ goods[i].type = query.pre[g].type
                 /\ goods[i].location = query.pre[g].location
                 /\ goods[i].state = "present"
            /\ \A i \in DOMAIN query.pre \ {g} : goods[i] = query.pre[i]
  /\ (query.call = "aggregate" /\ query.err = "none") =>
       LET inputs == SeqToSet(query.args.goods)
       IN /\ Cardinality(Outcome) = 1
          /\ SumQuantity(goods, Outcome) = SumQuantity(query.pre, inputs)
          /\ \A i \in Outcome : goods[i].state = "present"
          /\ SumQuantity(goods, {i \in DOMAIN goods : goods[i].state = "present"})
               = SumQuantity(query.pre, {i \in DOMAIN query.pre :
                                            query.pre[i].state = "present"})

\* a split of 2 out of goods of quantity 3, next to other goods
C20_Witness ==
  /\ query.call = "split" /\ query.err = "none"
  /\ query.pre[query.self].quantity = 3
  /\ query.args.quantity = 2
  /\ Len(query.pre) = 2

\* an aggregate of the two outcomes of a split
C20_WitnessAggregate ==
  /\ query.call = "aggregate" /\ query.err = "none"
  /\ \A i \in SeqToSet(query.args.goods) : query.pre[i].reason > 0
  /\ query.pre[query.args.goods[1]].quantity
       # query.pre[query.args.goods[2]].quantity

\* the Aggregate planned to revert the split, once it is done
RevertedSplits ==
  {x \in DOMAIN ops :
     /\ ops[x].type = "split"
     /\ \E a \in DOMAIN ops : ops[a].type = "aggregate" /\ ops[a].state = "done"}
PresentGoods == {i \in DOMAIN goods : goods[i].state = "present"}

\* C21: for a done Split X of the goods that arrived, alone or followed by
\* a done Move of one of its outcomes, once plan_revert() is called and the
\* planned reversals are executed up to the reversal of X, one record of
\* goods is present and it has the quantity, location, type and properties
\* the goods had before X; the outcomes of X are past, no record is future
\* and none has a negative quantity.
C21_ReversalRoundTrip ==
  \A x \in RevertedSplits :
    /\ Cardinality(PresentGoods) = 1
    /\ \A i \in PresentGoods :
         /\ goods[i].quantity = ops[0].quantity
         /\ goods[i].location = ops[0].location
         /\ goods[i].type = ops[0].goods_type
         /\ goods[i].properties = ops[0].properties
    /\ \A i \in DOMAIN goods :
         /\ goods[i].reason = x => goods[i].state = "past"
         /\ goods[i].state # "future"
         /\ goods[i].quantity >= 0

\* the Aggregate has just been executed, the last of the reversals, after
\* the reversal of a Move to the other location
C21_Witness ==
  /\ query.call = "execute" /\ query.err = "none"
  /\ ops[query.self].type = "aggregate" /\ ops[query.self].state = "done"
  /\ \E m \in DOMAIN ops :
       /\ ops[m].type = "move"
       /\ <<1, m>> \in edges
       /\ \E i \in DOMAIN goods :
            goods[i].reason = m /\ goods[i].location # ops[0].location
  /\ ops[0].quantity = 3

\* the Aggregate has just been executed, the Split being the latest
\* operation on the goods
C21_WitnessFinal ==
  /\ query.call = "execute" /\ query.err = "none"
  /\ ops[query.self].type = "aggregate" /\ ops[query.self].state = "done"
  /\ \A m \in DOMAIN ops : ops[m].type # "move"
  /\ ops[0].quantity = 3

\* C22: is_split_reversible() is true of a type without behaviours, false
\* of a type with the flag of the physical behaviour and nothing said of
\* Split, and true again once the behaviour of Split says reversible, and
\* is_aggregate_reversible() likewise; plan_revert() on a done Split of
\* goods of a type for which it is false raises OperationIrreversibleError
\* with that Split and plans no Aggregate nor anything else.
C22_IrreversibilityGating ==
  /\ \A t \in GoodsTypes :
       LET b == goods_types[t]
       IN /\ b = NoBehaviours =>
               is_split_reversible(b) /\ is_aggregate_reversible(b)
          /\ (b.split_aggregate_physical = Some(TRUE) /\ IsNone(b.split)) =>
               ~is_split_reversible(b)
          /\ (b.split_aggregate_physical = Some(TRUE) /\ IsNone(b.aggregate)) =>
               ~is_aggregate_reversible(b)
          /\ (b.split_aggregate_physical = Some(TRUE) /\ b.split = Some(TRUE)) =>
               is_split_reversible(b)
          /\ (b.split_aggregate_physical = Some(TRUE)
                /\ b.aggregate = Some(TRUE)) =>
               is_aggregate_reversible(b)
  /\ (/\ query.call = "plan_revert"
      /\ query.ops[query.self].type = "split"
      /\ query.ops[query.self].state = "done"
      /\ ~is_split_reversible(goods_types[query.pre[1].type])) =>
       /\ query.err = "OperationIrreversibleError"
       /\ query.ret = <<query.self>>
       /\ goods = query.pre
       /\ ops = query.ops
       /\ \A x \in DOMAIN ops : ops[x].type # "aggregate"

\* plan_revert() on a done Split of goods whose type has the flag of the
\* physical behaviour only, as in test_irreversible
C22_Witness ==
  /\ query.call = "plan_revert"
  /\ query.ops[query.self].type = "split"
  /\ ops[0].state = "planned"
  /\ query.err = "OperationIrreversibleError"
  /\ goods_types[query.pre[1].type]
       = [NoBehaviours EXCEPT !.split_aggregate_physical = Some(TRUE)]

\* plan_revert() has planned the Aggregate for a type with the flag and the
\* behaviour of Split that says reversible
C22_WitnessOverride ==
  /\ query.call = "plan_revert" /\ query.err = "none"
  /\ query.ops[query.self].type = "split"
  /\ goods_types[query.pre[1].type].split_aggregate_physical = Some(TRUE)
  /\ goods_types[query.pre[1].type].split = Some(TRUE)

\* C23: after goods.set_property(k, v), get_property(k) of these goods is
\* v, and get_property of all other goods, those that had the same record
\* of properties included, is what it was, under every name.
C23_CopyOnWrite ==
  (query.call = "set_property" /\ query.err = "none") =>
    /\ get_property(goods, properties, query.self, query.args.k, None)
         = Some(query.args.v)
    /\ \A o \in DOMAIN goods \ {query.self}, k \in PropertyKeys :
         get_property(goods, properties, o, k, None)
           = get_property(query.pre.goods, query.pre.properties, o, k, None)

\* set_property on goods that had their record of properties in common
\* with other goods, under a name the record had another value for
C23_Witness ==
  /\ query.call = "set_property" /\ query.err = "none"
  /\ Sharing(query.pre.goods, query.self) # {}
  /\ ~IsNone(query.pre.goods[query.self].properties)
  /\ get_property(query.pre.goods, query.pre.properties, query.self,
                  query.args.k, None) \notin {None, Some(query.args.v)}

\* C24: create() calls check_create_conditions, then find_parent_operations,
\* then inserts the operation, then adds its follows, then calls
\* after_insert. If check_create_conditions or find_parent_operations
\* raises, no operation is inserted and no edge added: the call stops at that
\* hook and the store is as before. If create() returns, the operation
\* follows exactly the operations that find_parent_operations returned, and
\* after_insert found it following them.
C24_CreateSteps ==
  (last.call = "create" /\ Len(last.log) > 0) =>
    /\ last.log[1][1] = "check_create_conditions"
    /\ last.err # "none" =>
         /\ Same
         /\ StepsNamed("insert") = {} /\ StepsNamed("after_insert") = {}
         /\ \/ /\ last.err = "OperationNotExecutable"
               /\ Len(last.log) = 1
               /\ ~CreateConditionsMet(last.log[1][4])
            \/ /\ last.err = "NotImplementedError"
               /\ Len(last.log) = 2
               /\ last.log[2][1] = "find_parent_operations"
               /\ CreateConditionsMet(last.log[1][4])
    /\ last.err = "none" =>
         LET op == last.ret[1]
             parents == SeqToSet(last.log[2][3])
         IN /\ Len(last.log) = 4
            /\ last.log[2][1] = "find_parent_operations"
            /\ last.log[2][3] = find_parent_operations(last.pre, last.args.inputs)
            /\ last.log[3] = <<"insert", op>>
            /\ last.log[4] = <<"after_insert", op, parents>>
            /\ op \notin DOMAIN last.pre.ops /\ op \in DOMAIN ops
            /\ DOMAIN ops = DOMAIN last.pre.ops \cup {op}
            /\ edges = last.pre.edges \cup {<<p, op>> : p \in parents}
            /\ {e \in edges : e[2] = op} = {<<p, op>> : p \in parents}

\* an Aggregate created to follow the two operations whose outcomes it takes
C24_Witness ==
  /\ last.call = "create" /\ last.err = "none"
  /\ Cardinality({e \in edges : e[2] = last.ret[1]}) = 2

\* a create() whose check_create_conditions raised, in a store with edges
C24_WitnessRaise ==
  /\ last.call = "create" /\ last.err = "OperationNotExecutable"
  /\ edges # {}

\* a create() whose find_parent_operations raised, after a
\* check_create_conditions that passed, in a store with edges
C24_WitnessParentsRaise ==
  /\ last.call = "create" /\ last.err = "NotImplementedError"
  /\ Len(last.log) = 2
  /\ edges # {}

\* C25: the state of an operation changes in execute() on that operation
\* only, and to done only: no operation becomes started or planned again,
\* and an operation that is done is done for as long as it is there; it is
\* obliviate() that deletes it.
C25_ForwardOnly ==
  [][\A x \in DOMAIN ops :
       /\ (x \in DOMAIN ops' /\ ops'[x].state # ops[x].state) =>
            /\ last'.call = "execute" /\ last'.self = x
            /\ ops'[x].state = "done"
       /\ (ops[x].state = "done" /\ x \notin DOMAIN ops') =>
            last'.call = "obliviate"]_vars

\* execute() has made a planned operation done, among other operations
C25_Witness ==
  /\ last.call = "execute" /\ last.err = "none"
  /\ last.pre.ops[last.self].state = "planned"
  /\ ops[last.self].state = "done"
  /\ \E y \in DOMAIN ops : ops[y].state = "started"

\* obliviate() has deleted operations that were done
C25_WitnessObliviate ==
  /\ last.call = "obliviate" /\ last.err = "none"
  /\ \E y \in DOMAIN last.pre.ops \ DOMAIN ops : last.pre.ops[y].state = "done"

\* C26: quantity(goods_type, at_datetime=t) without additional_states
\* applies no filter on the date and time: whatever t is, a date and time,
\* DATE_TIME_INFINITY or none, it returns what quantity(goods_type) returns.
C26_FastPathIgnoresDate ==
  (query.call = "quantity" /\ IsNone(query.args.additional_states)) =>
    /\ query.err = "none"
    /\ query.ret = quantity(goods, query.self, query.args.goods_type,
                            None, None).ret

\* C27: cancel() on a planned operation with a transitive follower that is
\* not planned raises and leaves the store as it was: no operation deleted,
\* no cancel_single done, no edge removed.
C27_FailedCancelChangesNothing ==
  (/\ last.call = "cancel"
   /\ last.pre.ops[last.self].state = "planned"
   /\ \E d \in TransFollowers(last.pre, last.self) :
        last.pre.ops[d].state # "planned") =>
    /\ last.err # "none"
    /\ StepsNamed("cancel_single") = {}
    /\ Same

\* C28: plan_revert() on a done, reversible operation with a transitive
\* follower that is not done or not reversible raises and leaves the store
\* as it was: no reversal is planned, not even for the followers met first.
C28_FailedPlanRevertChangesNothing ==
  (/\ last.call = "plan_revert"
   /\ last.pre.ops[last.self].state = "done"
   /\ is_reversible(last.pre, last.self)
   /\ \E d \in TransFollowers(last.pre, last.self) :
        last.pre.ops[d].state # "done" \/ ~is_reversible(last.pre, d)) =>
    /\ last.err # "none"
    /\ Created = {}
    /\ Same

\* both calls raise in these cases
FailedWalksRaise ==
  /\ (/\ last.call = "cancel"
      /\ last.pre.ops[last.self].state = "planned"
      /\ \E d \in TransFollowers(last.pre, last.self) :
           last.pre.ops[d].state # "planned") => last.err # "none"
  /\ (/\ last.call = "plan_revert"
      /\ last.pre.ops[last.self].state = "done"
      /\ is_reversible(last.pre, last.self)
      /\ \E d \in TransFollowers(last.pre, last.self) :
           last.pre.ops[d].state # "done" \/ ~is_reversible(last.pre, d)) =>
       last.err # "none"

\* C29: cancel() on a planned operation whose transitive followers are all
\* planned, and obliviate() on a done one whose transitive followers are
\* all done, run cancel_single (obliviate_single) and delete exactly once on
\* each operation of the sub-DAG, whatever its shape, and never on an
\* operation that is already deleted.
C29_ExactlyOnce ==
  (/\ last.call \in {"cancel", "obliviate"}
   /\ \A y \in SubDag(last.pre, last.self) :
        last.pre.ops[y].state
          = (IF last.call = "cancel" THEN "planned" ELSE "done")) =>
    /\ last.err = "none"
    /\ StepsNamed("stale") = {}
    /\ \A y \in SubDag(last.pre, last.self) :
         /\ Cardinality(StepsOn(SingleStep(last.call), y)) = 1
         /\ Cardinality(StepsOn("delete", y)) = 1

\* the operations of the sub-DAG that two of its operations precede
SharedFollowers(s, x) ==
  {y \in SubDag(s, x) :
     Cardinality({e \in s.edges : e[2] = y /\ e[1] \in SubDag(s, x)}) > 1}

\* C30: a call of plan_revert() on X that succeeds has made exactly one
\* reversal for each operation of the sub-DAG of X (X and its transitive
\* followers), each of them a new operation and nothing else new, whatever
\* the shape of the sub-DAG; the returned leaves name no operation twice.
C30_OneReversalEach ==
  (last.call = "plan_revert" /\ last.err = "none") =>
    /\ \A y \in SubDag(last.pre, last.self) :
         Cardinality(StepsOn("reversal", y)) = 1
    /\ \A i \in StepsNamed("reversal") :
         last.log[i][2] \in SubDag(last.pre, last.self)
    /\ Created = {last.log[i][3] : i \in StepsNamed("reversal")}
    /\ Cardinality(Created) = Cardinality(SubDag(last.pre, last.self))
    /\ Cardinality(SeqToSet(last.ret[2])) = Len(last.ret[2])

\* plan_revert() has planned the reversals of an operation and of its two
\* followers, and returned the two leaves
C30_Witness ==
  /\ last.call = "plan_revert" /\ last.err = "none"
  /\ Cardinality(Followers(last.pre, last.self)) = 2
  /\ Cardinality(SubDag(last.pre, last.self)) = 3
  /\ Cardinality(Created) = 3
  /\ Len(last.ret[2]) = 2

\* plan_revert() on a sub-DAG in which two operations have a common
\* follower does not succeed: the second visit of the common follower finds
\* its planned reversal, which is not done
C30_SharedFollowerRaises ==
  (last.call = "plan_revert" /\ SharedFollowers(last.pre, last.self) # {}) =>
    last.err # "none"

\* plan_revert() has raised on a sub-DAG of done, reversible operations, two
\* of which have a common follower
C30_WitnessSharedFollower ==
  /\ last.call = "plan_revert" /\ last.err # "none"
  /\ SharedFollowers(last.pre, last.self) # {}
  /\ \A y \in SubDag(last.pre, last.self) :
       last.pre.ops[y].state = "done" /\ is_reversible(last.pre, y)

\* the same, for the sub-DAGs in which no operation is reached by two paths
C30_OneReversalEachInTrees ==
  (/\ last.call = "plan_revert"
   /\ \A y \in SubDag(last.pre, last.self) :
        /\ last.pre.ops[y].state = "done" /\ is_reversible(last.pre, y)
        /\ Cardinality({e \in last.pre.edges :
                          e[2] = y /\ e[1] \in SubDag(last.pre, last.self)}) <= 1) =>
    /\ last.err = "none"
    /\ \A y \in SubDag(last.pre, last.self) :
         Cardinality(StepsOn("reversal", y)) = 1
    /\ Cardinality(Created) = Cardinality(SubDag(last.pre, last.self))
    /\ Cardinality(SeqToSet(last.ret[2])) = Len(last.ret[2])

\* C31: whatever was created, executed, cancelled, obliviated or reverted,
\* each row of the history table joins two operations that are both there,
\* and B is a follower of A exactly when B follows A.
C31_EdgeIntegrity ==
  /\ \A e \in edges : e[1] \in DOMAIN ops /\ e[2] \in DOMAIN ops
  /\ \A A \in DOMAIN ops, B \in DOMAIN ops :
       B \in Followers(Store, A) <=> A \in Follows(Store, B)

\* a cancel() or an obliviate() has deleted an operation that followed
\* another one, which stays with other edges
C31_Witness ==
  /\ last.call \in {"cancel", "obliviate"} /\ last.err = "none"
  /\ \E e \in last.pre.edges : e[1] \in DOMAIN ops /\ e[2] \notin DOMAIN ops
  /\ Cardinality(edges) >= 2

\* a cancel() that raised after it had deleted a follower
C31_WitnessRaise ==
  /\ last.call = "cancel" /\ last.err # "none"
  /\ DOMAIN ops # DOMAIN last.pre.ops

\* C32: after plan_revert() on X, the reversal of each operation without
\* followers follows that operation; so a second plan_revert() on X, the
\* reversals being still planned, reaches one of them by the followers,
\* raises OperationError for it not being done, and plans nothing more.
C32_NotRepeatable ==
  /\ (last.call = "plan_revert" /\ last.err = "none") =>
       \A y \in SubDag(last.pre, last.self) :
         Followers(last.pre, y) = {} =>
           \E r \in Created : Follows(Store, r) = {y}
  /\ (last.call = "plan_revert_again") =>
       /\ last.err = "OperationError"
       /\ Len(last.ret) = 1
       /\ last.ret[1] \in last.args.reversals
       /\ last.ret[1] \in TransFollowers(last.pre, last.self)
       /\ last.pre.ops[last.ret[1]].state = "planned"
       /\ StepsNamed("plan_revert_single") = {}
       /\ Created = {}
       /\ Same

\* a second plan_revert() on an operation with a follower, both reverted by
\* the first
C32_Witness ==
  /\ last.call = "plan_revert_again"
  /\ Cardinality(last.args.reversals) >= 2
  /\ Followers(last.pre, last.self) \cap last.args.reversals = {}

\* a second plan_revert() on an operation without followers other than its
\* reversal
C32_WitnessLeaf ==
  /\ last.call = "plan_revert_again"
  /\ Followers(last.pre, last.self) = last.args.reversals

====
